---- MODULE Spec2Model ----
(***************************************************************************)
(* Per-connection I/O pump of roles/pool (spawn_io_tasks): a reader task   *)
(* and a writer task per connection, two bounded async_channel queues      *)
(* (inbound, outbound), and the process-wide tokio broadcast channel that  *)
(* carries ShutdownMessage values to every task.                           *)
(*                                                                         *)
(* The module also holds the message-type classifier of the same file      *)
(* (protocol_message_type) and the file persistence backend of             *)
(* stratum-apps (FileBackend), with the no-op backend, the Persistence     *)
(* manager that dispatches to one of them and the pool's                   *)
(* PersistenceConfig::into_persistence.  Each part has its own variables   *)
(* and its own specifications; a specification of one part leaves the      *)
(* variables of the other parts at their initial values.                   *)
(***************************************************************************)
EXTENDS Integers, Sequences, FiniteSets, TLC

\* ------------------------------------------------------------------ bounds
\* Sv2 frames the peer sends on a connection's transport.
MaxRead == 2
\* Frames the upper layer enqueues on a connection's outbound queue.
MaxOut == 2
\* Capacity of the bounded inbound / outbound queues (async_channel::bounded).
QueueCap == 1
\* Retained messages of the broadcast channel (tokio::sync::broadcast).
BroadcastCap == 1
\* Messages published on the broadcast channel during a run.
MaxPublish == BroadcastCap + 1

\* --------------------------------------------------------------- identities
\* StatusType, as derived from the StatusSender handed to spawn_io_tasks.
Downstream(id) == [tag |-> "Downstream", id |-> id]
TemplateReceiver == [tag |-> "TemplateReceiver", id |-> 0]

\* The connections spawn_io_tasks can be called for, and the identity
\* (StatusType::from(&status_sender)) each is constructed with.
Pumps == {"d1", "d2", "tp"}
status_type(p) ==
    CASE p = "d1" -> Downstream(1)
      [] p = "d2" -> Downstream(2)
      [] OTHER -> TemplateReceiver
\* The sets of connections a run is started with.  Connections share only
\* the broadcast channel, which no loop writes, so a run follows one of them.
Runs == {{"d1"}, {"d2"}, {"tp"}}

\* ------------------------------------------------------------ ShutdownMessage
ShutdownAll == [tag |-> "ShutdownAll", id |-> 0]
DownstreamShutdownAll == [tag |-> "DownstreamShutdownAll", id |-> 0]
DownstreamShutdown(id) == [tag |-> "DownstreamShutdown", id |-> id]
\* The ids carried by the DownstreamShutdown messages of a run.
DownIds == {1}
ShutdownMessage ==
    {ShutdownAll, DownstreamShutdownAll} \cup {DownstreamShutdown(i) : i \in DownIds}

VARIABLES
    connected,        \* the connections spawn_io_tasks was called for
    status_sent,      \* messages the loops have sent with status_sender
    notify_shutdown,  \* every message sent on the broadcast channel, in order
    r_shutdown_rx,    \* reader subscription: position of its next message
    w_shutdown_rx,    \* writer subscription: position of its next message
    r_missed,         \* positions the reader subscription skipped (Lagged)
    w_missed,         \* positions the writer subscription skipped (Lagged)
    rpc,              \* reader task: "select", "send" (awaiting inbound_tx.send), "done"
    wpc,              \* writer task: "select", "write" (awaiting write_frame), "done"
    rexit,            \* branch through which the reader left its loop
    wexit,            \* branch through which the writer left its loop
    rframe,           \* frame held by the pending inbound_tx.send (0: none)
    wframe,           \* frame held by the pending write_frame (0: none)
    inbound,          \* inbound queue: [q, closed]
    outbound,         \* outbound queue: [q, closed]
    nread,            \* Sv2 frames the transport has yielded so far
    nout,             \* frames the upper layer has enqueued so far
    delivered,        \* frames the inbound consumer has taken, in order
    written,          \* frames written to the transport, in order
    message_type,     \* classifier: the u8 handed to protocol_message_type
    classified,       \* classifier: the MessageType it returned ("none": not called)
    backend_alive,    \* FileBackend: some clone of the handle (a Sender) exists
    sender,           \* FileBackend: the bounded command channel, [q, closed]
    worker,           \* worker thread: "none", "opening", "recv", "drain", "returning", "done"
    worker_exit,      \* branch through which worker_loop returned
    file,             \* the log file: the characters written to it, in order
    flushed,          \* length of the file when file.flush() was last called
    write_failed,     \* some writeln! on the file has returned Err
    ncalls,           \* calls made on the backend so far, by method
    accepted,         \* the commands the channel has accepted, in order, each with
                      \* whether the worker had yet to leave its loop at that time
    ret,              \* what the last call of a backend method returned ("none": no call)
    exited,           \* the process has exited: main has returned
    notify_dropped,   \* every broadcast Sender (notify_shutdown, its clones) is dropped
    config,           \* the Option<PersistenceConfig> handed to Persistence::new
    result,           \* what the construction of the Persistence returned ("none": not called)
    persistence,      \* the Persistence: its backend variant, its enabled_entities and
                      \* the constructor that built it
    pcalls            \* calls made on the Persistence so far, by method

\* The variables of the pump.
ioVars == <<connected, status_sent, notify_shutdown, r_shutdown_rx, w_shutdown_rx, r_missed, w_missed,
            rpc, wpc, rexit, wexit, rframe, wframe, inbound, outbound,
            nread, nout, delivered, written>>

\* The variables of the classifier.
classifyVars == <<message_type, classified>>

\* The variables of the file persistence backend.
fileVars == <<backend_alive, sender, worker, worker_exit, file, flushed, write_failed,
              ncalls, accepted, ret>>

\* The process as a whole.
processVars == <<exited, notify_dropped>>

\* The variables of the Persistence manager and of its construction.
persistVars == <<config, result, persistence, pcalls>>

vars == <<ioVars, classifyVars, fileVars, processVars, persistVars>>

\* The variables a step of the pump leaves alone.
notIoVars == <<classifyVars, fileVars, processVars, persistVars>>

\* The variables a call of the classifier leaves alone.
notClassifyVars == <<ioVars, fileVars, processVars, persistVars>>

\* The variables outside the persistence layer.
notFileVars == <<ioVars, classifyVars, processVars>>

pumpVars == <<rpc, wpc, rexit, wexit, rframe, wframe, inbound, outbound,
              nread, nout, delivered, written>>

\* ------------------------------------------------------- broadcast channel
\* tokio broadcast Receiver::recv on a subscription whose next position is
\* `next`: the slot has been overwritten when more than BroadcastCap messages
\* are waiting; the receiver then jumps to the oldest retained message and
\* returns Err(Lagged).
Lagged(next) == Len(notify_shutdown) - next >= BroadcastCap
OldestRetained == Len(notify_shutdown) - BroadcastCap + 1
Pending(next) == next <= Len(notify_shutdown)

\* Variant: the `if id == down_id` guard of the DownstreamShutdown arm is lost.
ShutdownApplies_AnyId(message, st) ==
    CASE message.tag = "ShutdownAll" -> TRUE
      [] /\ message.tag = "DownstreamShutdown"
         /\ st.tag = "Downstream" -> st # TemplateReceiver
      [] OTHER -> FALSE

\* Variant: DownstreamShutdownAll shares the ShutdownAll arm.
ShutdownApplies_DownstreamAllBreaks(message, st) ==
    CASE message.tag \in {"ShutdownAll", "DownstreamShutdownAll"} -> TRUE
      [] /\ message.tag = "DownstreamShutdown"
         /\ st.tag = "Downstream"
         /\ st.id = message.id -> st # TemplateReceiver
      [] OTHER -> FALSE

\* The match on a received message in both select loops: TRUE when the arm
\* closes the queue and breaks.
ShutdownApplies(message, st) ==
    CASE message.tag = "ShutdownAll" -> TRUE
      [] /\ message.tag = "DownstreamShutdown"
         /\ st.tag = "Downstream"
         /\ st.id = message.id -> st # TemplateReceiver
      [] OTHER -> FALSE

\* ------------------------------------------------------------ queue helpers
\* Variant: close flips the closed flag.
Close_Toggles(ch) == [ch EXCEPT !.closed = ~@]

\* close() of a Sender or Receiver: the channel is closed, what it holds stays.
Close(ch) == [ch EXCEPT !.closed = TRUE]
Push(ch, f) == [ch EXCEPT !.q = Append(@, f)]
Pop(ch) == [ch EXCEPT !.q = Tail(@)]
Full(ch) == Len(ch.q) >= QueueCap

\* Variant: the reader leaves without outbound_rx_clone.close().
ReaderExit_KeepsOutbound(p, cause) ==
    /\ rpc' = [rpc EXCEPT ![p] = "done"]
    /\ rexit' = [rexit EXCEPT ![p] = cause]
    /\ rframe' = [rframe EXCEPT ![p] = 0]
    /\ inbound' = [inbound EXCEPT ![p] = Close(@)]
    /\ outbound' = outbound

\* Lines after the reader's loop: inbound_tx.close(); outbound_rx_clone.close().
ReaderExit(p, cause) ==
    /\ rpc' = [rpc EXCEPT ![p] = "done"]
    /\ rexit' = [rexit EXCEPT ![p] = cause]
    /\ rframe' = [rframe EXCEPT ![p] = 0]
    /\ inbound' = [inbound EXCEPT ![p] = Close(@)]
    /\ outbound' = [outbound EXCEPT ![p] = Close(@)]

\* Variant: the writer leaves without inbound_tx_clone.close().
WriterExit_KeepsInbound(p, cause) ==
    /\ wpc' = [wpc EXCEPT ![p] = "done"]
    /\ wexit' = [wexit EXCEPT ![p] = cause]
    /\ wframe' = [wframe EXCEPT ![p] = 0]
    /\ outbound' = [outbound EXCEPT ![p] = Close(@)]
    /\ inbound' = inbound

\* Lines after the writer's loop: outbound_rx.close(); inbound_tx_clone.close().
WriterExit(p, cause) ==
    /\ wpc' = [wpc EXCEPT ![p] = "done"]
    /\ wexit' = [wexit EXCEPT ![p] = cause]
    /\ wframe' = [wframe EXCEPT ![p] = 0]
    /\ outbound' = [outbound EXCEPT ![p] = Close(@)]
    /\ inbound' = [inbound EXCEPT ![p] = Close(@)]

\* -------------------------------------------------------------------- Init
\* The state when spawn_io_tasks has returned for every connection: both
\* subscriptions exist, both tasks are spawned and neither has run.
InitIo ==
    /\ status_sent = 0
    /\ notify_shutdown = <<>>
    /\ r_shutdown_rx = [p \in connected |-> 1]
    /\ w_shutdown_rx = [p \in connected |-> 1]
    /\ r_missed = [p \in connected |-> {}]
    /\ w_missed = [p \in connected |-> {}]
    /\ rpc = [p \in connected |-> "select"]
    /\ wpc = [p \in connected |-> "select"]
    /\ rexit = [p \in connected |-> "none"]
    /\ wexit = [p \in connected |-> "none"]
    /\ rframe = [p \in connected |-> 0]
    /\ wframe = [p \in connected |-> 0]
    /\ inbound = [p \in connected |-> [q |-> <<>>, closed |-> FALSE]]
    /\ outbound = [p \in connected |-> [q |-> <<>>, closed |-> FALSE]]
    /\ nread = [p \in connected |-> 0]
    /\ nout = [p \in connected |-> 0]
    /\ delivered = [p \in connected |-> <<>>]
    /\ written = [p \in connected |-> <<>>]
    /\ exited = FALSE
    /\ notify_dropped = FALSE

\* The classifier before any call.
InitClassifyIdle ==
    /\ message_type = 0
    /\ classified = "none"

\* The methods of PersistenceBackend.
Methods == {"persist_event", "flush", "shutdown"}

\* No FileBackend has been created.
InitFileIdle ==
    /\ backend_alive = FALSE
    /\ sender = [q |-> <<>>, closed |-> TRUE]
    /\ worker = "none"
    /\ worker_exit = "none"
    /\ file = <<>>
    /\ flushed = 0
    /\ write_failed = FALSE
    /\ ncalls = [method \in Methods |-> 0]
    /\ accepted = <<>>
    /\ ret = "none"

\* The methods of Persistence.
PersistenceMethods == {"persist", "flush", "shutdown"}

\* No Persistence value.
NoPersistence == [backend |-> "none", enabled_entities |-> {}, built_by |-> "none"]

\* No Persistence has been built.
InitPersistIdle ==
    /\ config = [tag |-> "none"]
    /\ result = "none"
    /\ persistence = NoPersistence
    /\ pcalls = [method \in PersistenceMethods |-> 0]

Init ==
    /\ connected \in Runs
    /\ InitIo
    /\ InitClassifyIdle
    /\ InitFileIdle
    /\ InitPersistIdle

\* ------------------------------------------------------------ environment
\* notify_shutdown.send(message) from any control path.
Publish(message) ==
    /\ ~notify_dropped
    /\ Len(notify_shutdown) < MaxPublish
    /\ notify_shutdown' = Append(notify_shutdown, message)
    /\ UNCHANGED <<connected, status_sent, r_shutdown_rx, w_shutdown_rx, r_missed, w_missed, pumpVars>>
    /\ UNCHANGED notIoVars

\* The last broadcast Sender is dropped: spawn_io_tasks dropped its own when
\* it returned, this is the last clone held by a control path.
DropSenders ==
    /\ ~notify_dropped
    /\ notify_dropped' = TRUE
    /\ UNCHANGED <<ioVars, classifyVars, fileVars, persistVars, exited>>

\* The upper layer receives the next frame of the inbound queue.
InboundRecv(p) ==
    /\ p \in connected
    /\ inbound[p].q # <<>>
    /\ delivered' = [delivered EXCEPT ![p] = Append(@, Head(inbound[p].q))]
    /\ inbound' = [inbound EXCEPT ![p] = Pop(@)]
    /\ UNCHANGED <<connected, status_sent, notify_shutdown, r_shutdown_rx, w_shutdown_rx, r_missed, w_missed,
                   rpc, wpc, rexit, wexit, rframe, wframe, outbound, nread, nout, written>>
    /\ UNCHANGED notIoVars

\* The upper layer drops (or closes) its inbound Receiver.
InboundDrop(p) ==
    /\ p \in connected
    /\ ~inbound[p].closed
    /\ inbound' = [inbound EXCEPT ![p] = Close(@)]
    /\ UNCHANGED <<connected, status_sent, notify_shutdown, r_shutdown_rx, w_shutdown_rx, r_missed, w_missed,
                   rpc, wpc, rexit, wexit, rframe, wframe, outbound, nread, nout,
                   delivered, written>>
    /\ UNCHANGED notIoVars

\* The upper layer enqueues a frame on the outbound queue.
OutboundSend(p) ==
    /\ p \in connected
    /\ nout[p] < MaxOut
    /\ ~outbound[p].closed
    /\ ~Full(outbound[p])
    /\ nout' = [nout EXCEPT ![p] = @ + 1]
    /\ outbound' = [outbound EXCEPT ![p] = Push(@, nout[p] + 1)]
    /\ UNCHANGED <<connected, status_sent, notify_shutdown, r_shutdown_rx, w_shutdown_rx, r_missed, w_missed,
                   rpc, wpc, rexit, wexit, rframe, wframe, inbound, nread,
                   delivered, written>>
    /\ UNCHANGED notIoVars

\* The upper layer drops (or closes) its outbound Senders.
OutboundDrop(p) ==
    /\ p \in connected
    /\ ~outbound[p].closed
    /\ outbound' = [outbound EXCEPT ![p] = Close(@)]
    /\ UNCHANGED <<connected, status_sent, notify_shutdown, r_shutdown_rx, w_shutdown_rx, r_missed, w_missed,
                   rpc, wpc, rexit, wexit, rframe, wframe, inbound, nread, nout,
                   delivered, written>>
    /\ UNCHANGED notIoVars

\* ------------------------------------------------------------------ reader
\* Variant: the reader's shutdown arm breaks on every message it receives.
ReaderShutdownArm_BreaksOnAny(p) ==
    /\ p \in connected
    /\ rpc[p] = "select"
    /\ Pending(r_shutdown_rx[p]) \/ notify_dropped
    /\ IF ~Pending(r_shutdown_rx[p])
       THEN UNCHANGED <<r_shutdown_rx, r_missed, pumpVars>>
       ELSE IF Lagged(r_shutdown_rx[p])
       THEN /\ r_missed' = [r_missed EXCEPT
                             ![p] = @ \cup (r_shutdown_rx[p] .. OldestRetained - 1)]
            /\ r_shutdown_rx' = [r_shutdown_rx EXCEPT ![p] = OldestRetained]
            /\ UNCHANGED pumpVars
       ELSE /\ r_shutdown_rx' = [r_shutdown_rx EXCEPT ![p] = @ + 1]
            /\ UNCHANGED r_missed
            /\ ReaderExit(p, "shutdown")
            /\ UNCHANGED <<wpc, wexit, wframe, nread, nout, delivered, written>>
    /\ UNCHANGED <<connected, status_sent, notify_shutdown, w_shutdown_rx, w_missed>>
    /\ UNCHANGED notIoVars

\* Variant: the reader's shutdown arm breaks on Err(Lagged) and Err(Closed).
ReaderShutdownArm_BreaksOnError(p) ==
    /\ p \in connected
    /\ rpc[p] = "select"
    /\ Pending(r_shutdown_rx[p]) \/ notify_dropped
    /\ IF ~Pending(r_shutdown_rx[p])
       THEN /\ ReaderExit(p, "shutdown")
            /\ UNCHANGED <<r_shutdown_rx, r_missed>>
            /\ UNCHANGED <<wpc, wexit, wframe, nread, nout, delivered, written>>
       ELSE IF Lagged(r_shutdown_rx[p])
       THEN /\ r_missed' = [r_missed EXCEPT
                             ![p] = @ \cup (r_shutdown_rx[p] .. OldestRetained - 1)]
            /\ r_shutdown_rx' = [r_shutdown_rx EXCEPT ![p] = OldestRetained]
            /\ ReaderExit(p, "shutdown")
            /\ UNCHANGED <<wpc, wexit, wframe, nread, nout, delivered, written>>
       ELSE /\ r_shutdown_rx' = [r_shutdown_rx EXCEPT ![p] = @ + 1]
            /\ UNCHANGED r_missed
            /\ IF ShutdownApplies(notify_shutdown[r_shutdown_rx[p]], status_type(p))
               THEN /\ ReaderExit(p, "shutdown")
                    /\ UNCHANGED <<wpc, wexit, wframe, nread, nout, delivered, written>>
               ELSE UNCHANGED pumpVars
    /\ UNCHANGED <<connected, status_sent, notify_shutdown, w_shutdown_rx, w_missed>>
    /\ UNCHANGED notIoVars

\* select arm `message = shutdown_rx.recv()` of the reader: Err(Closed) when
\* every Sender is dropped and nothing is retained, Err(Lagged) when the next
\* message was overwritten, else Ok(message); `_ => {}` takes both errors.
ReaderShutdownArm(p) ==
    /\ p \in connected
    /\ rpc[p] = "select"
    /\ Pending(r_shutdown_rx[p]) \/ notify_dropped
    /\ IF ~Pending(r_shutdown_rx[p])
       THEN UNCHANGED <<r_shutdown_rx, r_missed, pumpVars>>
       ELSE IF Lagged(r_shutdown_rx[p])
       THEN /\ r_missed' = [r_missed EXCEPT
                             ![p] = @ \cup (r_shutdown_rx[p] .. OldestRetained - 1)]
            /\ r_shutdown_rx' = [r_shutdown_rx EXCEPT ![p] = OldestRetained]
            /\ UNCHANGED pumpVars
       ELSE /\ r_shutdown_rx' = [r_shutdown_rx EXCEPT ![p] = @ + 1]
            /\ UNCHANGED r_missed
            /\ IF ShutdownApplies(notify_shutdown[r_shutdown_rx[p]], status_type(p))
               THEN /\ ReaderExit(p, "shutdown")
                    /\ UNCHANGED <<wpc, wexit, wframe, nread, nout, delivered, written>>
               ELSE UNCHANGED pumpVars
    /\ UNCHANGED <<connected, status_sent, notify_shutdown, w_shutdown_rx, w_missed>>
    /\ UNCHANGED notIoVars

\* Variant: the forward is a try_send, which discards the frame of a full queue.
ReaderForward_DropsWhenFull(p, frame) ==
    IF inbound[p].closed
    THEN ReaderExit(p, "forward")
    ELSE IF Full(inbound[p])
    THEN /\ rpc' = [rpc EXCEPT ![p] = "select"]
         /\ rframe' = [rframe EXCEPT ![p] = 0]
         /\ UNCHANGED <<rexit, inbound, outbound>>
    ELSE /\ rpc' = [rpc EXCEPT ![p] = "select"]
         /\ rframe' = [rframe EXCEPT ![p] = 0]
         /\ inbound' = [inbound EXCEPT ![p] = Push(@, frame)]
         /\ UNCHANGED <<rexit, outbound>>

\* inbound_tx.send(frame): Err when the queue is closed, suspended while full.
ReaderForward(p, frame) ==
    IF inbound[p].closed
    THEN ReaderExit(p, "forward")
    ELSE IF Full(inbound[p])
    THEN /\ rpc' = [rpc EXCEPT ![p] = "send"]
         /\ rframe' = [rframe EXCEPT ![p] = frame]
         /\ UNCHANGED <<rexit, inbound, outbound>>
    ELSE /\ rpc' = [rpc EXCEPT ![p] = "select"]
         /\ rframe' = [rframe EXCEPT ![p] = 0]
         /\ inbound' = [inbound EXCEPT ![p] = Push(@, frame)]
         /\ UNCHANGED <<rexit, outbound>>

\* select arm `res = reader.read_frame()`: Ok(Frame::Sv2).
ReaderReadSv2(p) ==
    /\ p \in connected
    /\ rpc[p] = "select"
    /\ nread[p] < MaxRead
    /\ nread' = [nread EXCEPT ![p] = @ + 1]
    /\ ReaderForward(p, nread[p] + 1)
    /\ UNCHANGED <<connected, status_sent, notify_shutdown, r_shutdown_rx, w_shutdown_rx, r_missed, w_missed,
                   wpc, wexit, wframe, nout, delivered, written>>
    /\ UNCHANGED notIoVars

\* Variant: the HandShake arm logs and drops the frame but does not break.
ReaderReadHandShake_NoBreak(p) ==
    /\ p \in connected
    /\ rpc[p] = "select"
    /\ rexit' = [rexit EXCEPT ![p] = "handshake"]
    /\ UNCHANGED <<rpc, rframe, inbound, outbound>>
    /\ UNCHANGED <<connected, status_sent, notify_shutdown, r_shutdown_rx, w_shutdown_rx, r_missed, w_missed,
                   wpc, wexit, wframe, nread, nout, delivered, written>>
    /\ UNCHANGED notIoVars

\* select arm `res = reader.read_frame()`: Ok(Frame::HandShake).
ReaderReadHandShake(p) ==
    /\ p \in connected
    /\ rpc[p] = "select"
    /\ ReaderExit(p, "handshake")
    /\ UNCHANGED <<connected, status_sent, notify_shutdown, r_shutdown_rx, w_shutdown_rx, r_missed, w_missed,
                   wpc, wexit, wframe, nread, nout, delivered, written>>
    /\ UNCHANGED notIoVars

\* Variant: a read error is treated as fatal for the process: the reader
\* also sends ShutdownAll on notify_shutdown.
ReaderReadErr_PublishesShutdownAll(p) ==
    /\ p \in connected
    /\ rpc[p] = "select"
    /\ ReaderExit(p, "read_error")
    /\ notify_shutdown' = Append(notify_shutdown, ShutdownAll)
    /\ UNCHANGED <<connected, status_sent, r_shutdown_rx, w_shutdown_rx, r_missed, w_missed,
                   wpc, wexit, wframe, nread, nout, delivered, written>>
    /\ UNCHANGED notIoVars

\* Variant: the reader reports the read error on the status channel.
ReaderReadErr_SendsStatus(p) ==
    /\ p \in connected
    /\ rpc[p] = "select"
    /\ ReaderExit(p, "read_error")
    /\ status_sent' = status_sent + 1
    /\ UNCHANGED <<connected, notify_shutdown, r_shutdown_rx, w_shutdown_rx, r_missed,
                   w_missed, wpc, wexit, wframe, nread, nout, delivered, written>>
    /\ UNCHANGED notIoVars

\* select arm `res = reader.read_frame()`: Err(e).
ReaderReadErr(p) ==
    /\ p \in connected
    /\ rpc[p] = "select"
    /\ ReaderExit(p, "read_error")
    /\ UNCHANGED <<connected, status_sent, notify_shutdown, r_shutdown_rx, w_shutdown_rx, r_missed, w_missed,
                   wpc, wexit, wframe, nread, nout, delivered, written>>
    /\ UNCHANGED notIoVars

\* The suspended inbound_tx.send(frame).await is woken (room, or closed).
ReaderSendResume(p) ==
    /\ p \in connected
    /\ rpc[p] = "send"
    /\ inbound[p].closed \/ ~Full(inbound[p])
    /\ ReaderForward(p, rframe[p])
    /\ UNCHANGED <<connected, status_sent, notify_shutdown, r_shutdown_rx, w_shutdown_rx, r_missed, w_missed,
                   wpc, wexit, wframe, nread, nout, delivered, written>>
    /\ UNCHANGED notIoVars

\* ------------------------------------------------------------------ writer
\* Variant: the writer's shutdown arm closes the queue but does not break.
WriterShutdownArm_NoBreak(p) ==
    /\ p \in connected
    /\ wpc[p] = "select"
    /\ Pending(w_shutdown_rx[p]) \/ notify_dropped
    /\ IF ~Pending(w_shutdown_rx[p])
       THEN UNCHANGED <<w_shutdown_rx, w_missed, pumpVars>>
       ELSE IF Lagged(w_shutdown_rx[p])
       THEN /\ w_missed' = [w_missed EXCEPT
                             ![p] = @ \cup (w_shutdown_rx[p] .. OldestRetained - 1)]
            /\ w_shutdown_rx' = [w_shutdown_rx EXCEPT ![p] = OldestRetained]
            /\ UNCHANGED pumpVars
       ELSE /\ w_shutdown_rx' = [w_shutdown_rx EXCEPT ![p] = @ + 1]
            /\ UNCHANGED w_missed
            /\ IF ShutdownApplies(notify_shutdown[w_shutdown_rx[p]], status_type(p))
               THEN /\ outbound' = [outbound EXCEPT ![p] = Close(@)]
                    /\ UNCHANGED <<rpc, wpc, rexit, wexit, rframe, wframe, inbound,
                                   nread, nout, delivered, written>>
               ELSE UNCHANGED pumpVars
    /\ UNCHANGED <<connected, status_sent, notify_shutdown, r_shutdown_rx, r_missed>>
    /\ UNCHANGED notIoVars

\* select arm `message = shutdown_rx.recv()` of the writer.
WriterShutdownArm(p) ==
    /\ p \in connected
    /\ wpc[p] = "select"
    /\ Pending(w_shutdown_rx[p]) \/ notify_dropped
    /\ IF ~Pending(w_shutdown_rx[p])
       THEN UNCHANGED <<w_shutdown_rx, w_missed, pumpVars>>
       ELSE IF Lagged(w_shutdown_rx[p])
       THEN /\ w_missed' = [w_missed EXCEPT
                             ![p] = @ \cup (w_shutdown_rx[p] .. OldestRetained - 1)]
            /\ w_shutdown_rx' = [w_shutdown_rx EXCEPT ![p] = OldestRetained]
            /\ UNCHANGED pumpVars
       ELSE /\ w_shutdown_rx' = [w_shutdown_rx EXCEPT ![p] = @ + 1]
            /\ UNCHANGED w_missed
            /\ IF ShutdownApplies(notify_shutdown[w_shutdown_rx[p]], status_type(p))
               THEN /\ WriterExit(p, "shutdown")
                    /\ UNCHANGED <<rpc, rexit, rframe, nread, nout, delivered, written>>
               ELSE UNCHANGED pumpVars
    /\ UNCHANGED <<connected, status_sent, notify_shutdown, r_shutdown_rx, r_missed>>
    /\ UNCHANGED notIoVars

\* Variant: the writer reads the head of the queue without removing it.
WriterRecvArm_Peeks(p) ==
    /\ p \in connected
    /\ wpc[p] = "select"
    /\ IF outbound[p].q # <<>>
       THEN /\ wpc' = [wpc EXCEPT ![p] = "write"]
            /\ wframe' = [wframe EXCEPT ![p] = Head(outbound[p].q)]
            /\ UNCHANGED <<wexit, inbound, outbound>>
       ELSE /\ outbound[p].closed
            /\ WriterExit(p, "closed")
    /\ UNCHANGED <<connected, status_sent, notify_shutdown, r_shutdown_rx, w_shutdown_rx, r_missed, w_missed,
                   rpc, rexit, rframe, nread, nout, delivered, written>>
    /\ UNCHANGED notIoVars

\* Variant: recv returns Err as soon as the queue is closed, whatever it holds.
WriterRecvArm_ErrWhenClosed(p) ==
    /\ p \in connected
    /\ wpc[p] = "select"
    /\ IF outbound[p].closed
       THEN WriterExit(p, "closed")
       ELSE /\ outbound[p].q # <<>>
            /\ wpc' = [wpc EXCEPT ![p] = "write"]
            /\ wframe' = [wframe EXCEPT ![p] = Head(outbound[p].q)]
            /\ outbound' = [outbound EXCEPT ![p] = Pop(@)]
            /\ UNCHANGED <<wexit, inbound>>
    /\ UNCHANGED <<connected, status_sent, notify_shutdown, r_shutdown_rx, w_shutdown_rx, r_missed, w_missed,
                   rpc, rexit, rframe, nread, nout, delivered, written>>
    /\ UNCHANGED notIoVars

\* select arm `res = outbound_rx.recv()`: Ok(frame) while a frame is queued
\* (also after close), Err once the queue is closed and empty.
WriterRecvArm(p) ==
    /\ p \in connected
    /\ wpc[p] = "select"
    /\ IF outbound[p].q # <<>>
       THEN /\ wpc' = [wpc EXCEPT ![p] = "write"]
            /\ wframe' = [wframe EXCEPT ![p] = Head(outbound[p].q)]
            /\ outbound' = [outbound EXCEPT ![p] = Pop(@)]
            /\ UNCHANGED <<wexit, inbound>>
       ELSE /\ outbound[p].closed
            /\ WriterExit(p, "closed")
    /\ UNCHANGED <<connected, status_sent, notify_shutdown, r_shutdown_rx, w_shutdown_rx, r_missed, w_missed,
                   rpc, rexit, rframe, nread, nout, delivered, written>>
    /\ UNCHANGED notIoVars

\* writer.write_frame(frame).await returns Ok(()).
WriterWriteOk(p) ==
    /\ p \in connected
    /\ wpc[p] = "write"
    /\ written' = [written EXCEPT ![p] = Append(@, wframe[p])]
    /\ wpc' = [wpc EXCEPT ![p] = "select"]
    /\ wframe' = [wframe EXCEPT ![p] = 0]
    /\ UNCHANGED <<connected, status_sent, notify_shutdown, r_shutdown_rx, w_shutdown_rx, r_missed, w_missed,
                   rpc, rexit, wexit, rframe, inbound, outbound, nread, nout, delivered>>
    /\ UNCHANGED notIoVars

\* Variant: the write error is logged and the queue closed, without break.
WriterWriteErr_Continues(p) ==
    /\ p \in connected
    /\ wpc[p] = "write"
    /\ wpc' = [wpc EXCEPT ![p] = "select"]
    /\ wexit' = [wexit EXCEPT ![p] = "write_error"]
    /\ wframe' = [wframe EXCEPT ![p] = 0]
    /\ outbound' = [outbound EXCEPT ![p] = Close(@)]
    /\ UNCHANGED inbound
    /\ UNCHANGED <<connected, status_sent, notify_shutdown, r_shutdown_rx, w_shutdown_rx, r_missed, w_missed,
                   rpc, rexit, rframe, nread, nout, delivered, written>>
    /\ UNCHANGED notIoVars

\* writer.write_frame(frame).await returns Err(e).
WriterWriteErr(p) ==
    /\ p \in connected
    /\ wpc[p] = "write"
    /\ WriterExit(p, "write_error")
    /\ UNCHANGED <<connected, status_sent, notify_shutdown, r_shutdown_rx, w_shutdown_rx, r_missed, w_missed,
                   rpc, rexit, rframe, nread, nout, delivered, written>>
    /\ UNCHANGED notIoVars

\* -------------------------------------------------------------------- Next
Next ==
    \/ \E m \in ShutdownMessage : Publish(m)
    \/ \E p \in Pumps : InboundRecv(p)
    \/ \E p \in Pumps : InboundDrop(p)
    \/ \E p \in Pumps : OutboundSend(p)
    \/ \E p \in Pumps : OutboundDrop(p)
    \/ \E p \in Pumps : ReaderShutdownArm(p)
    \/ \E p \in Pumps : ReaderReadSv2(p)
    \/ \E p \in Pumps : ReaderReadHandShake(p)
    \/ \E p \in Pumps : ReaderReadErr(p)
    \/ \E p \in Pumps : ReaderSendResume(p)
    \/ \E p \in Pumps : WriterShutdownArm(p)
    \/ \E p \in Pumps : WriterRecvArm(p)
    \/ \E p \in Pumps : WriterWriteOk(p)
    \/ \E p \in Pumps : WriterWriteErr(p)

Spec == Init /\ [][Next]_vars

\* As Next, in a process whose control paths may drop the broadcast Senders.
NextClosed ==
    \/ Next
    \/ DropSenders

SpecClosed == Init /\ [][NextClosed]_vars

\* Scheduling of the spawned tasks: a task whose pending future is ready is
\* polled.  Nothing is assumed of the peers, of the upper layer or of the
\* publishers, except that a started write_frame returns.
Fairness ==
    \A p \in Pumps :
        /\ WF_vars(ReaderShutdownArm(p))
        /\ WF_vars(ReaderSendResume(p))
        /\ WF_vars(WriterShutdownArm(p))
        /\ WF_vars(WriterRecvArm(p))
        /\ WF_vars(WriterWriteOk(p) \/ WriterWriteErr(p))

SpecLive == Init /\ [][Next]_vars /\ Fairness

\* As SpecLive, and the upper layer keeps receiving from the inbound queue,
\* so that no inbound_tx.send stays suspended for ever.
SpecLiveDrained ==
    Init /\ [][Next]_vars /\ Fairness /\ \A p \in Pumps : WF_vars(InboundRecv(p))

\* tokio::select! polls its branches from a random one on, so a branch that
\* is ready again and again is taken in the end, however often the other
\* branch is ready too: strong fairness of the shutdown arms.
FairSelect ==
    \A p \in Pumps :
        /\ SF_vars(ReaderShutdownArm(p))
        /\ SF_vars(WriterShutdownArm(p))

\* As SpecLiveDrained, with the fair select.
SpecFairSelect ==
    Init /\ [][Next]_vars /\ Fairness /\ FairSelect
         /\ \A p \in Pumps : WF_vars(InboundRecv(p))

\* A run in which nothing is ever sent on the broadcast channel: the
\* shutdown_rx.recv() arms stay pending, every other step is as in Next.
NextQuiet ==
    \/ \E p \in Pumps : InboundRecv(p)
    \/ \E p \in Pumps : InboundDrop(p)
    \/ \E p \in Pumps : OutboundSend(p)
    \/ \E p \in Pumps : OutboundDrop(p)
    \/ \E p \in Pumps : ReaderReadSv2(p)
    \/ \E p \in Pumps : ReaderReadHandShake(p)
    \/ \E p \in Pumps : ReaderReadErr(p)
    \/ \E p \in Pumps : ReaderSendResume(p)
    \/ \E p \in Pumps : WriterRecvArm(p)
    \/ \E p \in Pumps : WriterWriteOk(p)
    \/ \E p \in Pumps : WriterWriteErr(p)

SpecQuiet == Init /\ [][NextQuiet]_vars

\* As SpecQuiet, with the tasks scheduled and the upper layer receiving.
SpecQuietDrained ==
    Init /\ [][NextQuiet]_vars /\ Fairness /\ \A p \in Pumps : WF_vars(InboundRecv(p))

\* Two connections side by side, each with its own transport and queues.
RunsPair == {{"d1", "d2"}}

InitPair ==
    /\ connected \in RunsPair
    /\ InitIo
    /\ InitClassifyIdle
    /\ InitFileIdle
    /\ InitPersistIdle

SpecPair == InitPair /\ [][NextQuiet]_vars

\* ----------------------------------------------------------------- process
\* main returns when start() has returned, and the runtime ends with it.
\* The supervisor only spawns; the drain on global shutdown waits for every
\* task it spawned, so start() returns when ShutdownAll has been published
\* and both loops of every connection have run to their end.
AllTasksJoined ==
    \A p \in connected : rpc[p] = "done" /\ wpc[p] = "done"

ProcessExit_NoJoin ==
    /\ ~exited
    /\ \E i \in 1..Len(notify_shutdown) : notify_shutdown[i] = ShutdownAll
    /\ exited' = TRUE
    /\ UNCHANGED notify_dropped
    /\ UNCHANGED <<connected, status_sent, notify_shutdown, r_shutdown_rx, w_shutdown_rx, r_missed,
                   w_missed, rpc, wpc, rexit, wexit, rframe, wframe, inbound,
                   outbound, nread, nout, delivered, written>>
    /\ UNCHANGED <<classifyVars, fileVars, persistVars>>

ProcessExit ==
    /\ ~exited
    /\ \E i \in 1..Len(notify_shutdown) : notify_shutdown[i] = ShutdownAll
    /\ AllTasksJoined
    /\ exited' = TRUE
    /\ UNCHANGED notify_dropped
    /\ UNCHANGED <<connected, status_sent, notify_shutdown, r_shutdown_rx, w_shutdown_rx, r_missed,
                   w_missed, rpc, wpc, rexit, wexit, rframe, wframe, inbound,
                   outbound, nread, nout, delivered, written>>
    /\ UNCHANGED <<classifyVars, fileVars, persistVars>>

\* The pumps of a process up to its exit.
NextProcess ==
    \/ ~exited /\ Next
    \/ ProcessExit

SpecProcess == Init /\ [][NextProcess]_vars

\* ------------------------------------------------------------ classifier
\* Message-type numbers of the Sv2 protocol, as the MESSAGE_TYPE_* constants
\* imported from stratum_core name them (hexadecimal in the comment).
MESSAGE_TYPE_SETUP_CONNECTION == 0  \* 0x00
MESSAGE_TYPE_SETUP_CONNECTION_SUCCESS == 1  \* 0x01
MESSAGE_TYPE_SETUP_CONNECTION_ERROR == 2  \* 0x02
MESSAGE_TYPE_CHANNEL_ENDPOINT_CHANGED == 3  \* 0x03
MESSAGE_TYPE_RECONNECT == 4  \* 0x04
MESSAGE_TYPE_OPEN_STANDARD_MINING_CHANNEL == 16  \* 0x10
MESSAGE_TYPE_OPEN_STANDARD_MINING_CHANNEL_SUCCESS == 17  \* 0x11
MESSAGE_TYPE_OPEN_MINING_CHANNEL_ERROR == 18  \* 0x12
MESSAGE_TYPE_OPEN_EXTENDED_MINING_CHANNEL == 19  \* 0x13
MESSAGE_TYPE_OPEN_EXTENDED_MINING_CHANNEL_SUCCESS == 20  \* 0x14
MESSAGE_TYPE_NEW_MINING_JOB == 21  \* 0x15
MESSAGE_TYPE_UPDATE_CHANNEL == 22  \* 0x16
MESSAGE_TYPE_UPDATE_CHANNEL_ERROR == 23  \* 0x17
MESSAGE_TYPE_CLOSE_CHANNEL == 24  \* 0x18
MESSAGE_TYPE_SET_EXTRANONCE_PREFIX == 25  \* 0x19
MESSAGE_TYPE_SUBMIT_SHARES_STANDARD == 26  \* 0x1a
MESSAGE_TYPE_SUBMIT_SHARES_EXTENDED == 27  \* 0x1b
MESSAGE_TYPE_SUBMIT_SHARES_SUCCESS == 28  \* 0x1c
MESSAGE_TYPE_SUBMIT_SHARES_ERROR == 29  \* 0x1d
MESSAGE_TYPE_NEW_EXTENDED_MINING_JOB == 31  \* 0x1f
MESSAGE_TYPE_MINING_SET_NEW_PREV_HASH == 32  \* 0x20
MESSAGE_TYPE_SET_TARGET == 33  \* 0x21
MESSAGE_TYPE_SET_CUSTOM_MINING_JOB == 34  \* 0x22
MESSAGE_TYPE_SET_CUSTOM_MINING_JOB_SUCCESS == 35  \* 0x23
MESSAGE_TYPE_SET_CUSTOM_MINING_JOB_ERROR == 36  \* 0x24
MESSAGE_TYPE_SET_GROUP_CHANNEL == 37  \* 0x25
MESSAGE_TYPE_ALLOCATE_MINING_JOB_TOKEN == 80  \* 0x50
MESSAGE_TYPE_ALLOCATE_MINING_JOB_TOKEN_SUCCESS == 81  \* 0x51
MESSAGE_TYPE_PROVIDE_MISSING_TRANSACTIONS == 85  \* 0x55
MESSAGE_TYPE_PROVIDE_MISSING_TRANSACTIONS_SUCCESS == 86  \* 0x56
MESSAGE_TYPE_DECLARE_MINING_JOB == 87  \* 0x57
MESSAGE_TYPE_DECLARE_MINING_JOB_SUCCESS == 88  \* 0x58
MESSAGE_TYPE_DECLARE_MINING_JOB_ERROR == 89  \* 0x59
MESSAGE_TYPE_PUSH_SOLUTION == 96  \* 0x60
MESSAGE_TYPE_COINBASE_OUTPUT_CONSTRAINTS == 112  \* 0x70
MESSAGE_TYPE_NEW_TEMPLATE == 113  \* 0x71
MESSAGE_TYPE_SET_NEW_PREV_HASH == 114  \* 0x72
MESSAGE_TYPE_REQUEST_TRANSACTION_DATA == 115  \* 0x73
MESSAGE_TYPE_REQUEST_TRANSACTION_DATA_SUCCESS == 116  \* 0x74
MESSAGE_TYPE_REQUEST_TRANSACTION_DATA_ERROR == 117  \* 0x75
MESSAGE_TYPE_SUBMIT_SOLUTION == 118  \* 0x76

\* u8
Bytes == 0..255

\* enum MessageType
MessageType == {"Common", "Mining", "JobDeclaration", "TemplateDistribution", "Unknown"}

is_common_message(mt) ==
    mt \in
        {MESSAGE_TYPE_SETUP_CONNECTION, MESSAGE_TYPE_SETUP_CONNECTION_SUCCESS,
         MESSAGE_TYPE_SETUP_CONNECTION_ERROR, MESSAGE_TYPE_CHANNEL_ENDPOINT_CHANGED,
         MESSAGE_TYPE_RECONNECT}

is_mining_message(mt) ==
    mt \in
        {MESSAGE_TYPE_OPEN_STANDARD_MINING_CHANNEL,
         MESSAGE_TYPE_OPEN_STANDARD_MINING_CHANNEL_SUCCESS,
         MESSAGE_TYPE_OPEN_MINING_CHANNEL_ERROR,
         MESSAGE_TYPE_OPEN_EXTENDED_MINING_CHANNEL,
         MESSAGE_TYPE_OPEN_EXTENDED_MINING_CHANNEL_SUCCESS,
         MESSAGE_TYPE_NEW_MINING_JOB, MESSAGE_TYPE_UPDATE_CHANNEL,
         MESSAGE_TYPE_UPDATE_CHANNEL_ERROR, MESSAGE_TYPE_CLOSE_CHANNEL,
         MESSAGE_TYPE_SET_EXTRANONCE_PREFIX, MESSAGE_TYPE_SUBMIT_SHARES_STANDARD,
         MESSAGE_TYPE_SUBMIT_SHARES_EXTENDED, MESSAGE_TYPE_SUBMIT_SHARES_SUCCESS,
         MESSAGE_TYPE_SUBMIT_SHARES_ERROR, 30, MESSAGE_TYPE_NEW_EXTENDED_MINING_JOB,
         MESSAGE_TYPE_MINING_SET_NEW_PREV_HASH, MESSAGE_TYPE_SET_TARGET,
         MESSAGE_TYPE_SET_CUSTOM_MINING_JOB,
         MESSAGE_TYPE_SET_CUSTOM_MINING_JOB_SUCCESS,
         MESSAGE_TYPE_SET_CUSTOM_MINING_JOB_ERROR, MESSAGE_TYPE_SET_GROUP_CHANNEL}

is_job_declaration_message(mt) ==
    mt \in
        {MESSAGE_TYPE_ALLOCATE_MINING_JOB_TOKEN,
         MESSAGE_TYPE_ALLOCATE_MINING_JOB_TOKEN_SUCCESS,
         MESSAGE_TYPE_PROVIDE_MISSING_TRANSACTIONS,
         MESSAGE_TYPE_PROVIDE_MISSING_TRANSACTIONS_SUCCESS,
         MESSAGE_TYPE_DECLARE_MINING_JOB, MESSAGE_TYPE_DECLARE_MINING_JOB_SUCCESS,
         MESSAGE_TYPE_DECLARE_MINING_JOB_ERROR, MESSAGE_TYPE_PUSH_SOLUTION}

\* Variant: the template-distribution set names the mining SetNewPrevHash.
is_template_distribution_message_MiningPrevHash(mt) ==
    mt \in
        {MESSAGE_TYPE_COINBASE_OUTPUT_CONSTRAINTS, MESSAGE_TYPE_NEW_TEMPLATE,
         MESSAGE_TYPE_MINING_SET_NEW_PREV_HASH, MESSAGE_TYPE_REQUEST_TRANSACTION_DATA,
         MESSAGE_TYPE_REQUEST_TRANSACTION_DATA_SUCCESS,
         MESSAGE_TYPE_REQUEST_TRANSACTION_DATA_ERROR, MESSAGE_TYPE_SUBMIT_SOLUTION}

is_template_distribution_message(mt) ==
    mt \in
        {MESSAGE_TYPE_COINBASE_OUTPUT_CONSTRAINTS, MESSAGE_TYPE_NEW_TEMPLATE,
         MESSAGE_TYPE_SET_NEW_PREV_HASH, MESSAGE_TYPE_REQUEST_TRANSACTION_DATA,
         MESSAGE_TYPE_REQUEST_TRANSACTION_DATA_SUCCESS,
         MESSAGE_TYPE_REQUEST_TRANSACTION_DATA_ERROR, MESSAGE_TYPE_SUBMIT_SOLUTION}

\* Variant: the JobDeclaration and TemplateDistribution results are swapped.
protocol_message_type_SwapsResults(mt) ==
    IF is_common_message(mt) THEN "Common"
    ELSE IF is_mining_message(mt) THEN "Mining"
    ELSE IF is_job_declaration_message(mt) THEN "TemplateDistribution"
    ELSE IF is_template_distribution_message(mt) THEN "JobDeclaration"
    ELSE "Unknown"

\* Variant: the chain ends in the last named category, with no Unknown.
protocol_message_type_NoUnknown(mt) ==
    IF is_common_message(mt) THEN "Common"
    ELSE IF is_mining_message(mt) THEN "Mining"
    ELSE IF is_job_declaration_message(mt) THEN "JobDeclaration"
    ELSE "TemplateDistribution"

protocol_message_type(mt) ==
    IF is_common_message(mt) THEN "Common"
    ELSE IF is_mining_message(mt) THEN "Mining"
    ELSE IF is_job_declaration_message(mt) THEN "JobDeclaration"
    ELSE IF is_template_distribution_message(mt) THEN "TemplateDistribution"
    ELSE "Unknown"

\* No connection: the state of the pump while the classifier is exercised.
InitIoIdle ==
    /\ connected = {}
    /\ InitIo

\* A caller is about to classify some byte.
InitClassify ==
    /\ InitIoIdle
    /\ InitFileIdle
    /\ InitPersistIdle
    /\ message_type \in Bytes
    /\ classified = "none"

\* The call protocol_message_type(message_type) returns.
Classify ==
    /\ classified = "none"
    /\ classified' = protocol_message_type(message_type)
    /\ UNCHANGED <<message_type, notClassifyVars>>

\* The caller moves on to the next byte it classifies.
NextByte ==
    /\ classified # "none"
    /\ message_type' \in Bytes
    /\ classified' = "none"
    /\ UNCHANGED notClassifyVars

NextClassify ==
    \/ Classify
    \/ NextByte

SpecClassify == InitClassify /\ [][NextClassify]_vars

\* The named categories whose predicate holds of a byte.
NamedSetsOf(mt) ==
    {c \in MessageType :
        \/ c = "Common" /\ is_common_message(mt)
        \/ c = "Mining" /\ is_mining_message(mt)
        \/ c = "JobDeclaration" /\ is_job_declaration_message(mt)
        \/ c = "TemplateDistribution" /\ is_template_distribution_message(mt)}

\* -------------------------------------------------------- file persistence
\* Capacity of the command channel: FileBackend::new(path, channel_size).
channel_size == 3
\* persist_event, flush and shutdown calls of a run.
MaxEvents == 2
MaxFlush == 1
MaxShutdown == 2

\* A String is the sequence of its characters.
LF == "\n"
\* ShareEvent::user_identity of the events of a run; the second holds a line feed.
UserIdentities == {<<"m">>, <<"m", LF>>}

\* PersistenceEvent::Share(ShareEvent { nonce, user_identity, .. }); the nonce
\* tells the events of a run apart.
PersistenceEvent == [nonce : 1..MaxEvents, user_identity : UserIdentities]

\* <str as Debug>::fmt: a line feed is written as backslash, n.
RECURSIVE EscapeDebug(_)
EscapeDebug(str) ==
    IF str = <<>> THEN <<>>
    ELSE (IF Head(str) = LF THEN <<"\\", "n">> ELSE <<Head(str)>>)
            \o EscapeDebug(Tail(str))

\* Variant: the event is formatted with its strings as they are (Display).
DebugFmt_Raw(event) ==
    <<ToString(event.nonce)>> \o event.user_identity

\* format!("{:?}", event): derived Debug, on one line, strings escaped.
DebugFmt(event) ==
    <<ToString(event.nonce)>> \o EscapeDebug(event.user_identity)

\* enum FileCommand
Write(text) == [cmd |-> "Write", text |-> text]
Flush == [cmd |-> "Flush", text |-> <<>>]
Shutdown == [cmd |-> "Shutdown", text |-> <<>>]

\* Sender::try_send returns Ok: the channel is neither closed nor full.
TrySendOk(ch) == ~ch.closed /\ Len(ch.q) < channel_size

\* Variant: a Write command the closed channel refuses is written to the
\* file by the calling thread.
TrySend_WritesWhenClosed(method, cmd) ==
    /\ backend_alive
    /\ ncalls' = [ncalls EXCEPT ![method] = @ + 1]
    /\ IF TrySendOk(sender)
       THEN /\ sender' = Push(sender, cmd)
            /\ accepted' = Append(accepted, [cmd |-> cmd, running |-> worker \in {"opening", "recv"}])
            /\ UNCHANGED file
       ELSE /\ file' = IF sender.closed /\ cmd.cmd = "Write"
                       THEN file \o cmd.text \o <<LF>>
                       ELSE file
            /\ UNCHANGED <<sender, accepted>>
    /\ ret' = "()"
    /\ UNCHANGED <<backend_alive, worker, worker_exit, flushed, write_failed>>
    /\ UNCHANGED notFileVars

\* Variant: the method hands the error of try_send back to its caller.
TrySend_ReturnsError(method, cmd) ==
    /\ backend_alive
    /\ ncalls' = [ncalls EXCEPT ![method] = @ + 1]
    /\ IF TrySendOk(sender)
       THEN /\ sender' = Push(sender, cmd)
            /\ accepted' = Append(accepted, [cmd |-> cmd, running |-> worker \in {"opening", "recv"}])
            /\ ret' = "()"
       ELSE /\ ret' = "Err"
            /\ UNCHANGED <<sender, accepted>>
    /\ UNCHANGED <<backend_alive, worker, worker_exit, file, flushed, write_failed>>
    /\ UNCHANGED notFileVars

\* self.sender.try_send(cmd) of a method: the command is enqueued, or the
\* error is logged and the command dropped; the method returns ().
TrySend(method, cmd) ==
    /\ backend_alive
    /\ ncalls' = [ncalls EXCEPT ![method] = @ + 1]
    /\ IF TrySendOk(sender)
       THEN /\ sender' = Push(sender, cmd)
            /\ accepted' = Append(accepted, [cmd |-> cmd, running |-> worker \in {"opening", "recv"}])
       ELSE UNCHANGED <<sender, accepted>>
    /\ ret' = "()"
    /\ UNCHANGED <<backend_alive, worker, worker_exit, file, flushed, write_failed>>
    /\ UNCHANGED notFileVars

\* Variant: the event is sent with send_blocking, which waits for room.
persist_event_Blocks(event) ==
    /\ ncalls["persist_event"] < MaxEvents
    /\ event.nonce = ncalls["persist_event"] + 1
    /\ sender.closed \/ Len(sender.q) < channel_size
    /\ TrySend("persist_event", Write(DebugFmt(event)))

\* FileBackend::persist_event
persist_event(event) ==
    /\ ncalls["persist_event"] < MaxEvents
    /\ event.nonce = ncalls["persist_event"] + 1
    /\ TrySend("persist_event", Write(DebugFmt(event)))

\* FileBackend::flush
flush ==
    /\ ncalls["flush"] < MaxFlush
    /\ TrySend("flush", Flush)

\* FileBackend::shutdown
shutdown ==
    /\ ncalls["shutdown"] < MaxShutdown
    /\ TrySend("shutdown", Shutdown)

\* FileBackend::pending_events: self.sender.len(), the commands in the channel.
pending_events == Len(sender.q)

\* The last clone of the FileBackend is dropped: no Sender is left.
DropBackend ==
    /\ backend_alive
    /\ backend_alive' = FALSE
    /\ sender' = Close(sender)
    /\ UNCHANGED <<worker, worker_exit, file, flushed, write_failed, ncalls, accepted>>
    /\ UNCHANGED <<ret, persistVars, notFileVars>>

\* worker_loop opens the file.
WorkerOpen ==
    /\ worker = "opening"
    /\ worker' = "recv"
    /\ UNCHANGED <<backend_alive, sender, worker_exit, file, flushed, write_failed,
                   ncalls, accepted>>
    /\ UNCHANGED <<ret, persistVars, notFileVars>>

\* worker_loop fails to open the file and returns: the Receiver is dropped.
WorkerOpenErr ==
    /\ worker = "opening"
    /\ worker' = "done"
    /\ worker_exit' = "open_error"
    /\ sender' = Close(sender)
    /\ UNCHANGED <<backend_alive, file, flushed, write_failed, ncalls, accepted>>
    /\ UNCHANGED <<ret, persistVars, notFileVars>>

\* writeln!(file, "{}", text): the text and a line feed, or an error after
\* nothing or after the text alone (the file is unbuffered).
writeln(text) ==
    \E outcome \in {"ok", "err", "err_partial"} :
        /\ file' = CASE outcome = "ok" -> file \o text \o <<LF>>
                     [] outcome = "err_partial" -> file \o text
                     [] OTHER -> file
        /\ write_failed' = (write_failed \/ outcome # "ok")

\* The Write and Flush arms, the same in the loop and in the drain.
Execute(cmd) ==
    IF cmd.cmd = "Write"
    THEN /\ writeln(cmd.text)
         /\ UNCHANGED flushed
    ELSE /\ flushed' = Len(file)
         /\ UNCHANGED <<file, write_failed>>

\* Variant: the worker leaves its loop without the last file.flush().
Finish_NoFlush(cause) ==
    /\ worker' = "returning"
    /\ worker_exit' = cause
    /\ UNCHANGED flushed

\* The end of an arm that leaves the loop: file.flush(), break.
Finish(cause) ==
    /\ worker' = "returning"
    /\ worker_exit' = cause
    /\ flushed' = Len(file)

\* Variant: recv_blocking fails as soon as the channel is closed, whatever
\* it holds.
WorkerRecv_ErrWhenClosed ==
    /\ worker = "recv"
    /\ IF sender.closed
       THEN /\ Finish("closed")
            /\ UNCHANGED <<sender, file, write_failed>>
       ELSE /\ sender.q # <<>>
            /\ sender' = Pop(sender)
            /\ IF Head(sender.q).cmd = "Shutdown"
               THEN /\ worker' = "drain"
                    /\ UNCHANGED <<worker_exit, file, flushed, write_failed>>
               ELSE /\ Execute(Head(sender.q))
                    /\ UNCHANGED <<worker, worker_exit>>
    /\ UNCHANGED <<backend_alive, ncalls, accepted>>
    /\ UNCHANGED <<ret, persistVars, notFileVars>>

\* Variant: the Write arm returns the error of writeln! with `?`.
WorkerRecv_ReturnsWriteError ==
    /\ worker = "recv"
    /\ IF sender.q # <<>>
       THEN IF Head(sender.q).cmd = "Shutdown"
            THEN /\ sender' = Pop(sender)
                 /\ worker' = "drain"
                 /\ UNCHANGED <<worker_exit, file, flushed, write_failed>>
            ELSE /\ Execute(Head(sender.q))
                 /\ IF /\ Head(sender.q).cmd = "Write"
                       /\ file' # file \o Head(sender.q).text \o <<LF>>
                    THEN /\ worker' = "done"
                         /\ worker_exit' = "write_error"
                         /\ sender' = Close(Pop(sender))
                    ELSE /\ sender' = Pop(sender)
                         /\ UNCHANGED <<worker, worker_exit>>
       ELSE /\ sender.closed
            /\ Finish("closed")
            /\ UNCHANGED <<sender, file, write_failed>>
    /\ UNCHANGED <<backend_alive, ncalls, accepted>>
    /\ UNCHANGED <<ret, persistVars, notFileVars>>

\* receiver.recv_blocking() of the loop and its match.
WorkerRecv ==
    /\ worker = "recv"
    /\ IF sender.q # <<>>
       THEN /\ sender' = Pop(sender)
            /\ IF Head(sender.q).cmd = "Shutdown"
               THEN /\ worker' = "drain"
                    /\ UNCHANGED <<worker_exit, file, flushed, write_failed>>
               ELSE /\ Execute(Head(sender.q))
                    /\ UNCHANGED <<worker, worker_exit>>
       ELSE /\ sender.closed
            /\ Finish("closed")
            /\ UNCHANGED <<sender, file, write_failed>>
    /\ UNCHANGED <<backend_alive, ncalls, accepted>>
    /\ UNCHANGED <<ret, persistVars, notFileVars>>

\* Variant: the drain has no arm for Shutdown and goes on to the next command.
WorkerDrain_IgnoresShutdown ==
    /\ worker = "drain"
    /\ IF sender.q # <<>>
       THEN /\ sender' = Pop(sender)
            /\ IF Head(sender.q).cmd = "Shutdown"
               THEN UNCHANGED <<worker, worker_exit, file, flushed, write_failed>>
               ELSE /\ Execute(Head(sender.q))
                    /\ UNCHANGED <<worker, worker_exit>>
       ELSE /\ Finish("shutdown")
            /\ UNCHANGED <<sender, file, write_failed>>
    /\ UNCHANGED <<backend_alive, ncalls, accepted>>
    /\ UNCHANGED <<ret, persistVars, notFileVars>>

\* One receiver.try_recv() of the Shutdown arm's drain.
WorkerDrain ==
    /\ worker = "drain"
    /\ IF sender.q # <<>>
       THEN /\ sender' = Pop(sender)
            /\ IF Head(sender.q).cmd = "Shutdown"
               THEN /\ Finish("shutdown")
                    /\ UNCHANGED <<file, write_failed>>
               ELSE /\ Execute(Head(sender.q))
                    /\ UNCHANGED <<worker, worker_exit>>
       ELSE /\ Finish("shutdown")
            /\ UNCHANGED <<sender, file, write_failed>>
    /\ UNCHANGED <<backend_alive, ncalls, accepted>>
    /\ UNCHANGED <<ret, persistVars, notFileVars>>

\* worker_loop returns Ok(()): the thread ends and drops the Receiver.
WorkerReturn ==
    /\ worker = "returning"
    /\ worker' = "done"
    /\ sender' = Close(sender)
    /\ UNCHANGED <<backend_alive, worker_exit, file, flushed, write_failed, ncalls,
                   accepted>>
    /\ UNCHANGED <<ret, persistVars, notFileVars>>

\* FileBackend::new has returned Ok: the file exists and is empty, the
\* channel is open and empty, the worker thread is spawned.
InitFile ==
    /\ InitIoIdle
    /\ InitClassifyIdle
    /\ backend_alive = TRUE
    /\ sender = [q |-> <<>>, closed |-> FALSE]
    /\ worker = "opening"
    /\ worker_exit = "none"
    /\ file = <<>>
    /\ flushed = 0
    /\ write_failed = FALSE
    /\ ncalls = [method \in Methods |-> 0]
    /\ accepted = <<>>
    /\ ret = "none"
    /\ InitPersistIdle

\* The backend used on its own: the caller calls its methods directly.
NextFile ==
    \/ \E event \in PersistenceEvent : persist_event(event) /\ UNCHANGED persistVars
    \/ flush /\ UNCHANGED persistVars
    \/ shutdown /\ UNCHANGED persistVars
    \/ DropBackend
    \/ WorkerOpen
    \/ WorkerOpenErr
    \/ WorkerRecv
    \/ WorkerDrain
    \/ WorkerReturn

SpecFile == InitFile /\ [][NextFile]_vars

\* The worker is a thread of its own: it runs whenever it can take a step.
\* Nothing is assumed of the callers.
WorkerFairness ==
    /\ WF_vars(WorkerOpen \/ WorkerOpenErr)
    /\ WF_vars(WorkerRecv)
    /\ WF_vars(WorkerDrain)
    /\ WF_vars(WorkerReturn)

SpecFileLive == InitFile /\ [][NextFile]_vars /\ WorkerFairness

\* ------------------------------------------------------------ no-op backend
\* A method of the no-op backend: an empty body, which returns ().
NoOpCall(method) ==
    /\ ncalls' = [ncalls EXCEPT ![method] = @ + 1]
    /\ ret' = "()"
    /\ UNCHANGED <<backend_alive, sender, worker, worker_exit, file, flushed,
                   write_failed, accepted>>
    /\ UNCHANGED notFileVars

NoOp_persist_event(event) == NoOpCall("persist_event")
NoOp_flush == NoOpCall("flush")
NoOp_shutdown == NoOpCall("shutdown")

\* -------------------------------------------------------------- Persistence
\* Calls of each method of a Persistence during a run.
MaxCalls == 1

EntityType == {"Share"}

\* The match of Persistence::persist on the event: every event is a Share.
entity_type(event) == "Share"

\* The strings a configuration lists under `entities`.
EntityNames == {<<"connections">>, <<"shares", "connections">>}

\* PersistenceConfig of the pool, with the file section present or not.
PersistenceConfig ==
    [tag : {"Some"}, backend : {"file", "sqlite"}, entities : EntityNames,
     file : {"None", "Some"}]

\* Option<PersistenceConfig>
OptionPersistenceConfig == {[tag |-> "None"]} \cup PersistenceConfig

\* The filter_map of into_persistence over the configured entity names.
ParseEntities(names) ==
    {e \in EntityType : \E i \in 1..Len(names) : names[i] = "shares" /\ e = "Share"}

\* Persistence::with_backend
with_backend(backend, entities) ==
    [backend |-> backend, enabled_entities |-> entities, built_by |-> "with_backend"]

\* Persistence::noop
noop == [backend |-> "NoOp", enabled_entities |-> {}, built_by |-> "noop"]

\* FileBackend::new returns Ok: the channel is created and the worker spawned.
FileBackend_new ==
    /\ backend_alive' = TRUE
    /\ sender' = [q |-> <<>>, closed |-> FALSE]
    /\ worker' = "opening"
    /\ UNCHANGED <<worker_exit, file, flushed, write_failed, ncalls, accepted, ret>>

\* Variant: a missing file section or an unknown backend name falls back to
\* the no-op backend instead of returning an error.
into_persistence_FallsBack(cfg) ==
    IF cfg.backend = "file" /\ cfg.file = "Some"
    THEN \E io \in {"Ok", "Err"} :
            IF io = "Ok"
            THEN /\ FileBackend_new
                 /\ persistence' = with_backend("File", ParseEntities(cfg.entities))
                 /\ result' = "Ok"
            ELSE /\ result' = "Io"
                 /\ UNCHANGED <<fileVars, persistence>>
    ELSE /\ persistence' = with_backend("NoOp", ParseEntities(cfg.entities))
         /\ result' = "Ok"
         /\ UNCHANGED fileVars

\* PersistenceConfig::into_persistence
into_persistence(cfg) ==
    IF cfg.backend = "file"
    THEN IF cfg.file = "None"
         THEN /\ result' = "Custom: [persistence.file] section required for file backend"
              /\ UNCHANGED <<fileVars, persistence>>
         ELSE \E io \in {"Ok", "Err"} :
                 IF io = "Ok"
                 THEN /\ FileBackend_new
                      /\ persistence' = with_backend("File", ParseEntities(cfg.entities))
                      /\ result' = "Ok"
                 ELSE /\ result' = "Io"
                      /\ UNCHANGED <<fileVars, persistence>>
    ELSE /\ result' = "Custom: Unknown backend type"
         /\ UNCHANGED <<fileVars, persistence>>

\* Persistence::new(config)
Persistence_new(cfg) ==
    /\ result = "none"
    /\ config' = cfg
    /\ IF cfg.tag = "Some"
       THEN into_persistence(cfg)
       ELSE /\ persistence' = noop
            /\ result' = "Ok"
            /\ UNCHANGED fileVars
    /\ UNCHANGED <<pcalls, notFileVars>>

\* A caller builds the Persistence with Persistence::noop().
Persistence_noop ==
    /\ result = "none"
    /\ persistence' = noop
    /\ result' = "Ok"
    /\ UNCHANGED <<config, pcalls, fileVars, notFileVars>>

\* A caller builds the Persistence with with_backend around a no-op backend.
Persistence_with_backend(entities) ==
    /\ result = "none"
    /\ persistence' = with_backend("NoOp", entities)
    /\ result' = "Ok"
    /\ UNCHANGED <<config, pcalls, fileVars, notFileVars>>

\* A Persistence exists and a call of the method is within the run's budget.
CanCall(method) ==
    /\ persistence.backend # "none"
    /\ pcalls[method] < MaxCalls
    /\ pcalls' = [pcalls EXCEPT ![method] = @ + 1]
    /\ UNCHANGED <<config, result, persistence>>

\* Variant: persist dispatches without looking at enabled_entities.
persist_Unfiltered(event) ==
    /\ CanCall("persist")
    /\ event.nonce = pcalls["persist"] + 1
    /\ IF persistence.backend = "File"
       THEN persist_event(event)
       ELSE NoOp_persist_event(event)

\* Persistence::persist
persist(event) ==
    /\ CanCall("persist")
    /\ event.nonce = pcalls["persist"] + 1
    /\ IF entity_type(event) \in persistence.enabled_entities
       THEN IF persistence.backend = "File"
            THEN persist_event(event)
            ELSE NoOp_persist_event(event)
       ELSE UNCHANGED <<fileVars, notFileVars>>

\* Persistence::flush
Persistence_flush ==
    /\ CanCall("flush")
    /\ IF persistence.backend = "File" THEN flush ELSE NoOp_flush

\* Persistence::shutdown
Persistence_shutdown ==
    /\ CanCall("shutdown")
    /\ IF persistence.backend = "File" THEN shutdown ELSE NoOp_shutdown

\* Nothing is built yet; a caller is about to build a Persistence.
InitPersistence ==
    /\ InitIoIdle
    /\ InitClassifyIdle
    /\ InitFileIdle
    /\ InitPersistIdle

NextPersistence ==
    \/ \E cfg \in OptionPersistenceConfig : Persistence_new(cfg)
    \/ Persistence_noop
    \/ \E entities \in SUBSET EntityType : Persistence_with_backend(entities)
    \/ \E event \in PersistenceEvent : persist(event)
    \/ Persistence_flush
    \/ Persistence_shutdown
    \/ DropBackend
    \/ WorkerOpen
    \/ WorkerOpenErr
    \/ WorkerRecv
    \/ WorkerDrain
    \/ WorkerReturn

SpecPersistence == InitPersistence /\ [][NextPersistence]_vars

\* The lines of a text, as str::lines gives them.
RECURSIVE SplitLines(_, _)
SplitLines(text, line) ==
    IF text = <<>> THEN (IF line = <<>> THEN <<>> ELSE <<line>>)
    ELSE IF Head(text) = LF THEN <<line>> \o SplitLines(Tail(text), <<>>)
    ELSE SplitLines(Tail(text), Append(line, Head(text)))

Lines(text) == SplitLines(text, <<>>)

\* The commands the channel has accepted, in order.
Commands == [i \in 1..Len(accepted) |-> accepted[i].cmd]

\* The commands the worker has received so far: the channel is FIFO, so
\* they are the accepted ones that are no longer queued.
Received == SubSeq(Commands, 1, Len(accepted) - Len(sender.q))

\* The formatted events of the Write commands among some commands, in order.
IsWrite(cmd) == cmd.cmd = "Write"
TextsOf(cmds) ==
    [i \in 1..Len(SelectSeq(cmds, IsWrite)) |-> SelectSeq(cmds, IsWrite)[i].text]

\* Position among the accepted commands of the first Shutdown (past the end: none).
FirstShutdown ==
    IF \E i \in 1..Len(accepted) : Commands[i] = Shutdown
    THEN CHOOSE i \in 1..Len(accepted) :
            /\ Commands[i] = Shutdown
            /\ \A j \in 1..(i - 1) : Commands[j] # Shutdown
    ELSE Len(accepted) + 1

\* The commands accepted before any shutdown() was.
BeforeShutdown == SubSeq(Commands, 1, FirstShutdown - 1)

\* s is a prefix of t.
IsPrefix(s, t) == Len(s) <= Len(t) /\ s = SubSeq(t, 1, Len(s))

\* This step is a call of persist_event.
PersistStep == ncalls'["persist_event"] = ncalls["persist_event"] + 1

\* ------------------------------------------------------------ observations
Published(message) ==
    \E i \in 1..Len(notify_shutdown) : notify_shutdown[i] = message

ReaderDone(p) == p \in connected /\ rpc[p] = "done"
WriterDone(p) == p \in connected /\ wpc[p] = "done"
PumpDone(p) == ReaderDone(p) /\ WriterDone(p)

\* The subscription returned message i as Ok(message).
ReaderReceived(p, i) ==
    p \in connected /\ i < r_shutdown_rx[p] /\ i \notin r_missed[p]
WriterReceived(p, i) ==
    p \in connected /\ i < w_shutdown_rx[p] /\ i \notin w_missed[p]

\* The loop has received a message whose arm closes and breaks.
ReaderGotShutdown(p) ==
    \E i \in 1..Len(notify_shutdown) :
        ReaderReceived(p, i) /\ ShutdownApplies(notify_shutdown[i], status_type(p))
WriterGotShutdown(p) ==
    \E i \in 1..Len(notify_shutdown) :
        WriterReceived(p, i) /\ ShutdownApplies(notify_shutdown[i], status_type(p))

\* This step is a recv on the subscription that returns Ok(message).
ReaderTakes(p, message) ==
    /\ r_shutdown_rx'[p] = r_shutdown_rx[p] + 1
    /\ r_missed'[p] = r_missed[p]
    /\ notify_shutdown[r_shutdown_rx[p]] = message
WriterTakes(p, message) ==
    /\ w_shutdown_rx'[p] = w_shutdown_rx[p] + 1
    /\ w_missed'[p] = w_missed[p]
    /\ notify_shutdown[w_shutdown_rx[p]] = message

\* Everything of connection p but its two subscriptions.
PumpState(p) ==
    <<rpc[p], wpc[p], rexit[p], wexit[p], rframe[p], wframe[p], inbound[p],
      outbound[p], nread[p], nout[p], delivered[p], written[p]>>

\* The first n frames of a direction: frame i is the i-th one the transport
\* yielded (inbound) or the upper layer enqueued (outbound).
FramesUpTo(n) == [i \in 1..n |-> i]

\* The frame a suspended inbound_tx.send holds.
HeldBySend(p) == IF rframe[p] = 0 THEN <<>> ELSE <<rframe[p]>>

\* ------------------------------------------------------------------ claims

\* C1: after ShutdownAll is published, every reader loop and every writer
\* loop of every running connection eventually exits.
C1_ShutdownAllStopsEveryLoop ==
    Published(ShutdownAll) ~> (\A p \in connected : PumpDone(p))

\* C2: once a loop has received a shutdown message that applies to it, the
\* reader sends nothing more into the inbound queue and the writer writes
\* nothing more to the transport: a step that enqueues on inbound, or that
\* writes a frame, is never taken by a loop that has received such a message.
C2_NoForwardAfterShutdown ==
    [][\A p \in connected :
          /\ Len(inbound'[p].q) > Len(inbound[p].q) => ~ReaderGotShutdown(p)
          /\ written'[p] # written[p] => ~WriterGotShutdown(p)]_vars

\* C2 witness: the writer has acted on a shutdown while a frame was still
\* queued on the outbound queue, and that frame stays unwritten.
C2_Witness ==
    \E p \in connected :
        /\ WriterGotShutdown(p)
        /\ WriterDone(p)
        /\ outbound[p].q # <<>>
        /\ ReaderGotShutdown(p)

\* C3: whenever one loop of a connection has exited, the other loop of the
\* same connection eventually exits too.
C3_MutualExit ==
    \A p \in Pumps :
        /\ ReaderDone(p) ~> WriterDone(p)
        /\ WriterDone(p) ~> ReaderDone(p)

\* C4: when the reader's forward into the inbound queue fails, the paired
\* writer eventually exits.
C4_ForwardFailureStopsWriter ==
    \A p \in Pumps : (p \in connected /\ rexit[p] = "forward") ~> WriterDone(p)

\* C4 witness: the forward failed, no shutdown message was ever published,
\* the writer never had a frame, and it left through the closed-queue arm.
C4_Witness ==
    \E p \in connected :
        /\ rexit[p] = "forward"
        /\ wexit[p] = "closed"
        /\ notify_shutdown = <<>>
        /\ nout[p] = 0

\* C5: after DownstreamShutdown(id) is published, both loops of the
\* connection whose identity is Downstream(id) eventually exit.
C5_DownstreamShutdownStopsPump ==
    \A p \in Pumps : \A id \in DownIds :
        (p \in connected /\ status_type(p) = Downstream(id)
            /\ Published(DownstreamShutdown(id))) ~> PumpDone(p)

\* C6: a DownstreamShutdown(id) received by a connection whose identity is
\* not Downstream(id) changes nothing in that connection.
C6_NonMatchingIgnored ==
    [][\A p \in connected : \A id \in DownIds :
          (status_type(p) # Downstream(id)
             /\ (\/ ReaderTakes(p, DownstreamShutdown(id))
                 \/ WriterTakes(p, DownstreamShutdown(id))))
          => PumpState(p)' = PumpState(p)]_vars

\* C6 witness: a Downstream(2) connection whose two loops have both received
\* DownstreamShutdown(1) and are still in their select, queues open.
C6_Witness ==
    \E p \in connected :
        /\ status_type(p) = Downstream(2)
        /\ Len(notify_shutdown) >= 1
        /\ notify_shutdown[1] = DownstreamShutdown(1)
        /\ ReaderReceived(p, 1) /\ WriterReceived(p, 1)
        /\ rpc[p] = "select" /\ wpc[p] = "select"
        /\ ~inbound[p].closed /\ ~outbound[p].closed

\* C7: a TemplateReceiver connection never exits and never closes a queue
\* on receiving DownstreamShutdown(id), for any id, or DownstreamShutdownAll.
C7_TemplateReceiverExempt ==
    [][\A p \in connected :
          \A m \in {DownstreamShutdownAll} \cup {DownstreamShutdown(i) : i \in DownIds} :
              (status_type(p) = TemplateReceiver /\ (ReaderTakes(p, m) \/ WriterTakes(p, m)))
              => /\ rpc'[p] = rpc[p] /\ wpc'[p] = wpc[p]
                 /\ inbound'[p].closed = inbound[p].closed
                 /\ outbound'[p].closed = outbound[p].closed]_vars

\* C7 witness: the TemplateReceiver connection has received a
\* DownstreamShutdownAll and a DownstreamShutdown in both loops and runs on.
C7_Witness ==
    \E p \in connected :
        /\ status_type(p) = TemplateReceiver
        /\ Len(notify_shutdown) = 2
        /\ notify_shutdown[1] = DownstreamShutdownAll
        /\ notify_shutdown[2] = DownstreamShutdown(1)
        /\ ReaderReceived(p, 1) /\ ReaderReceived(p, 2)
        /\ WriterReceived(p, 1) /\ WriterReceived(p, 2)
        /\ rpc[p] = "select" /\ wpc[p] = "select"
        /\ ~inbound[p].closed /\ ~outbound[p].closed

\* C8: after DownstreamShutdownAll is published, both loops of every
\* connection with a Downstream identity eventually exit.
C8_DownstreamShutdownAllStopsDownstreams ==
    Published(DownstreamShutdownAll)
        ~> (\A p \in connected : status_type(p).tag = "Downstream" => PumpDone(p))

\* C9: whenever a loop of a connection has terminated, both the inbound and
\* the outbound queue of that connection are closed.
C9_ExitClosesBothQueues ==
    \A p \in connected :
        (ReaderDone(p) \/ WriterDone(p)) => (inbound[p].closed /\ outbound[p].closed)

\* C9 witness: the reader left on a handshake frame, whose arm closes
\* nothing itself, while the writer is still running.
C9_Witness ==
    \E p \in connected :
        /\ rexit[p] = "handshake"
        /\ ~WriterDone(p)
        /\ inbound[p].closed /\ outbound[p].closed

\* C10: every published message is eventually received by every
\* subscription that is still running.
C10_EveryMessageReceived ==
    \A p \in Pumps : \A i \in 1..MaxPublish :
        /\ (p \in connected /\ Len(notify_shutdown) >= i)
              ~> (ReaderDone(p) \/ ReaderReceived(p, i))
        /\ (p \in connected /\ Len(notify_shutdown) >= i)
              ~> (WriterDone(p) \/ WriterReceived(p, i))

C13_HandshakeStopsReader ==
    /\ [](\A p \in connected :
            rexit[p] = "handshake"
            => /\ rpc[p] = "done"
               /\ delivered[p] \o inbound[p].q = FramesUpTo(nread[p]))
    /\ [][\A p \in connected :
            rexit[p] = "handshake"
            => /\ nread'[p] = nread[p]
               /\ Len(inbound'[p].q) <= Len(inbound[p].q)]_vars

\* C13 witness: the reader left on a HandShake frame while the transport
\* had more to give; the frame read before it is still in the closed
\* inbound queue, from which the consumer can take it.
C13_Witness ==
    \E p \in connected :
        /\ rexit[p] = "handshake"
        /\ nread[p] = 1
        /\ inbound[p].closed
        /\ inbound[p].q = <<1>>
        /\ ENABLED InboundRecv(p)

\* This step is the teardown of connection p on a transport error: its
\* reader leaves on Err from read_frame, or its writer on Err from write_frame.
TransportErrorStep(p) ==
    \/ rexit[p] # "read_error" /\ rexit'[p] = "read_error"
    \/ wexit[p] # "write_error" /\ wexit'[p] = "write_error"

\* C14: a step in which one connection is torn down by a transport read or
\* write error changes nothing of any other connection (loops, queues,
\* counters, subscriptions), which therefore goes on as before, and sends
\* nothing on the broadcast channel.
C14_ErrorIsLocal ==
    [][\A p \in connected :
          TransportErrorStep(p)
          => /\ notify_shutdown' = notify_shutdown
             /\ \A o \in connected \ {p} :
                   /\ PumpState(o)' = PumpState(o)
                   /\ r_shutdown_rx'[o] = r_shutdown_rx[o]
                   /\ w_shutdown_rx'[o] = w_shutdown_rx[o]]_vars

\* C14 witness: one connection was torn down by a read error before it
\* forwarded anything; the other runs with open queues and has forwarded
\* every frame of the run in both directions.
C14_Witness ==
    \E p \in connected : \E o \in connected \ {p} :
        /\ rexit[p] = "read_error" /\ PumpDone(p)
        /\ nread[p] = 0 /\ written[p] = <<>>
        /\ rpc[o] = "select" /\ wpc[o] = "select"
        /\ ~inbound[o].closed /\ ~outbound[o].closed
        /\ delivered[o] = FramesUpTo(MaxRead)
        /\ written[o] = FramesUpTo(MaxOut)

\* C15: for every byte at most one of is_common_message, is_mining_message,
\* is_job_declaration_message and is_template_distribution_message is true.
C15_SetsDisjoint ==
    /\ message_type \in Bytes
    /\ Cardinality(NamedSetsOf(message_type)) <= 1

\* C15 witness: the template-distribution SetNewPrevHash, whose mining
\* namesake is another number, is in the template-distribution set only.
C15_Witness ==
    /\ message_type = MESSAGE_TYPE_SET_NEW_PREV_HASH
    /\ classified = "TemplateDistribution"
    /\ NamedSetsOf(message_type) = {"TemplateDistribution"}
    /\ NamedSetsOf(MESSAGE_TYPE_MINING_SET_NEW_PREV_HASH) = {"Mining"}

\* C16: protocol_message_type returns Common when is_common_message holds,
\* else Mining when is_mining_message holds, else JobDeclaration when
\* is_job_declaration_message holds, else TemplateDistribution when
\* is_template_distribution_message holds; and for each named category X it
\* returns X exactly when the byte is in the set X.
C16_FirstMatchIsTheSet ==
    classified # "none" =>
        /\ is_common_message(message_type) => classified = "Common"
        /\ ~is_common_message(message_type) /\ is_mining_message(message_type)
              => classified = "Mining"
        /\ ~is_common_message(message_type) /\ ~is_mining_message(message_type)
              /\ is_job_declaration_message(message_type)
              => classified = "JobDeclaration"
        /\ ~is_common_message(message_type) /\ ~is_mining_message(message_type)
              /\ ~is_job_declaration_message(message_type)
              /\ is_template_distribution_message(message_type)
              => classified = "TemplateDistribution"
        /\ \A X \in MessageType \ {"Unknown"} :
              classified = X <=> X \in NamedSetsOf(message_type)

\* C16 witness: a job-declaration byte was classified JobDeclaration.
C16_Witness ==
    /\ message_type = MESSAGE_TYPE_PUSH_SOLUTION
    /\ classified = "JobDeclaration"

\* C17: protocol_message_type returns a MessageType for every byte, and it
\* returns Unknown exactly for the bytes in none of the four named sets.
C17_TotalAndUnknown ==
    /\ \A b \in Bytes : protocol_message_type(b) \in MessageType
    /\ classified = "none" => ENABLED Classify
    /\ classified # "none" =>
          /\ classified \in MessageType
          /\ classified = "Unknown" <=> NamedSetsOf(message_type) = {}

\* C17 witness: the largest byte, which no set names, was classified Unknown.
C17_Witness ==
    /\ message_type = 255
    /\ NamedSetsOf(message_type) = {}
    /\ classified = "Unknown"

\* C18: persist_event can be called in every state of the backend, whatever
\* the channel holds and whatever the worker does or has done (it never
\* waits and has no error to return); the call changes nothing but the
\* channel, to which it adds the event when try_send accepts it, and which it
\* leaves as it is when the channel is full or closed.
C18_PersistNeverBlocks ==
    /\ [](backend_alive /\ ncalls["persist_event"] < MaxEvents
            => \A event \in PersistenceEvent :
                  event.nonce = ncalls["persist_event"] + 1
                  => ENABLED persist_event(event))
    /\ [][PersistStep
            => /\ UNCHANGED <<backend_alive, worker, worker_exit, file, flushed,
                              write_failed>>
               /\ IF sender.closed \/ Len(sender.q) >= channel_size
                  THEN sender' = sender /\ accepted' = accepted
                  ELSE /\ sender'.closed = sender.closed
                       /\ Len(sender'.q) = Len(sender.q) + 1
                       /\ SubSeq(sender'.q, 1, Len(sender.q)) = sender.q
                       /\ sender'.q[Len(sender'.q)].cmd = "Write"]_vars

\* C18 witness: the channel is open, both events of the run were passed to
\* persist_event and one of them was dropped on a full channel.
C18_Witness ==
    /\ backend_alive
    /\ ~sender.closed
    /\ Len(sender.q) = channel_size
    /\ ncalls["persist_event"] = MaxEvents
    /\ Len(TextsOf(Commands)) < MaxEvents

C20_ShutdownWritesAndFlushes ==
    (worker = "done" /\ worker_exit = "shutdown")
    => /\ flushed = Len(file)
       /\ ~write_failed
             => /\ FirstShutdown <= Len(accepted)
                /\ IsPrefix(TextsOf(BeforeShutdown), Lines(file))

\* C20 witness: one event, then shutdown, both accepted; the worker has
\* ended and the file holds the event's line, flushed.
C20_Witness ==
    /\ worker = "done"
    /\ worker_exit = "shutdown"
    /\ ~write_failed
    /\ Len(Commands) = 2
    /\ Commands[1].cmd = "Write"
    /\ Commands[2] = Shutdown
    /\ Lines(file) = <<Commands[1].text>>
    /\ flushed = Len(file)

\* A Persistence exists whose backend handle can be called.
Usable ==
    /\ persistence.backend # "none"
    /\ persistence.backend = "File" => backend_alive

\* The calls made on the backend so far, over all methods.
BackendCalls == ncalls["persist_event"] + ncalls["flush"] + ncalls["shutdown"]

\* This step is a call of a method of the backend.
BackendCallStep == \E method \in Methods : ncalls'[method] = ncalls[method] + 1

PersistCallStep == pcalls'["persist"] = pcalls["persist"] + 1

\* C22: a call of Persistence::persist reaches the backend only when the
\* event's entity type is in enabled_entities, and otherwise changes nothing
\* in the backend; a Persistence built by noop() (directly or by new(None))
\* has the no-op backend and no enabled entity, and no call on it ever puts
\* a command in a channel, starts a worker or writes to a file.
C22_PersistFiltersByEntity ==
    /\ [](persistence.built_by = "noop" =>
            /\ persistence.backend = "NoOp"
            /\ persistence.enabled_entities = {}
            /\ ncalls["persist_event"] = 0
            /\ sender.q = <<>> /\ accepted = <<>> /\ file = <<>> /\ worker = "none")
    /\ [][PersistCallStep =>
            IF "Share" \in persistence.enabled_entities
            THEN ncalls'["persist_event"] = ncalls["persist_event"] + 1
            ELSE UNCHANGED fileVars]_vars

\* C22 witness: new(None) built the Persistence, and persist, flush and
\* shutdown have each been called on it.
C22_Witness ==
    /\ config = [tag |-> "None"]
    /\ persistence.built_by = "noop"
    /\ \A method \in PersistenceMethods : pcalls[method] = MaxCalls
    /\ ncalls["persist_event"] = 0
    /\ ncalls["flush"] = MaxCalls /\ ncalls["shutdown"] = MaxCalls

\* C23: into_persistence returns Ok only for backend "file" with the file
\* section present; backend "file" without the section returns the
\* section-required error, any other backend name the unknown-backend error,
\* and after either error no channel exists and no worker was started.
C23_IntoPersistenceErrors ==
    (config.tag = "Some" /\ result # "none") =>
        /\ result = "Ok" => (config.backend = "file" /\ config.file = "Some")
        /\ (config.backend = "file" /\ config.file = "None")
              => result = "Custom: [persistence.file] section required for file backend"
        /\ config.backend # "file" => result = "Custom: Unknown backend type"
        /\ result # "Ok"
              => /\ worker = "none" /\ ~backend_alive /\ sender.closed
                 /\ persistence = NoPersistence

\* C23 witness: backend "file" without a file section: the error is
\* returned, nothing was built and no worker runs.
C23_Witness ==
    /\ config.tag = "Some"
    /\ config.backend = "file"
    /\ config.file = "None"
    /\ result = "Custom: [persistence.file] section required for file backend"
    /\ worker = "none"

C25_ShutdownNeverStarved ==
    \A p \in Pumps : \A i \in 1..MaxPublish :
        (/\ p \in connected
         /\ Len(notify_shutdown) >= i
         /\ ShutdownApplies(notify_shutdown[i], status_type(p)))
            ~> (ReaderDone(p) /\ WriterDone(p))

\* C26: the writer takes the "outbound queue closed" exit only from a queue
\* that is closed and empty, and when it has taken it every frame that was
\* enqueued has been written, in the order of enqueuing.
C26_ClosedExitAfterDrain ==
    [][\A p \in Pumps : p \in connected =>
          /\ (wexit[p] # "closed" /\ wexit'[p] = "closed")
                => outbound[p].closed /\ outbound[p].q = <<>>
          /\ wexit'[p] = "closed" => written'[p] = FramesUpTo(nout'[p])]_vars

\* The reader's exit closed the outbound queue, and the writer left through
\* the closed queue with every enqueued frame written.
C26_Witness ==
    \E p \in connected :
        /\ wexit[p] = "closed"
        /\ rexit[p] = "read_error"
        /\ nout[p] = MaxOut
        /\ written[p] = FramesUpTo(MaxOut)

\* The step in which a loop of p leaves: its position becomes "done".
ReaderExits(p) == rpc[p] # "done" /\ rpc'[p] = "done"
WriterExits(p) == wpc[p] # "done" /\ wpc'[p] = "done"

\* The step takes from subscription rx a message that applies to p.
TakesApplicable(p, rx) ==
    /\ Pending(rx[p])
    /\ ~Lagged(rx[p])
    /\ ShutdownApplies(notify_shutdown[rx[p]], status_type(p))
    /\ rx'[p] = rx[p] + 1

\* C27: a loop leaves only through one of its listed exits.  The reader
\* leaves on an applicable shutdown message it takes, on a frame or an error
\* of the transport in its select, or on a forward to the closed inbound
\* queue; the writer on an applicable shutdown message it takes, on a write
\* that was started, or on the outbound queue closed and empty.  A message
\* that does not apply, a frame handled, or the other loop's exit is no exit.
C27_OnlyListedExits ==
    [][\A p \in Pumps : p \in connected =>
          /\ ReaderExits(p) =>
                \/ /\ rexit'[p] = "shutdown"
                   /\ rpc[p] = "select"
                   /\ TakesApplicable(p, r_shutdown_rx)
                \/ /\ rexit'[p] \in {"handshake", "read_error"}
                   /\ rpc[p] = "select"
                   /\ UNCHANGED <<r_shutdown_rx, nread>>
                \/ /\ rexit'[p] = "forward"
                   /\ inbound[p].closed
                   /\ \/ rpc[p] = "send" /\ rframe[p] # 0
                      \/ rpc[p] = "select" /\ nread'[p] = nread[p] + 1
          /\ WriterExits(p) =>
                \/ /\ wexit'[p] = "shutdown"
                   /\ wpc[p] = "select"
                   /\ TakesApplicable(p, w_shutdown_rx)
                \/ /\ wexit'[p] = "write_error"
                   /\ wpc[p] = "write"
                \/ /\ wexit'[p] = "closed"
                   /\ wpc[p] = "select"
                   /\ outbound[p].closed
                   /\ outbound[p].q = <<>>
                   /\ UNCHANGED w_shutdown_rx]_vars

\* The reader is still in its select after a message that does not apply to
\* it, a frame it forwarded, and the writer's exit, which closed both queues.
C27_Witness ==
    \E p \in connected :
        /\ rpc[p] = "select"
        /\ r_shutdown_rx[p] = 2
        /\ r_missed[p] = {}
        /\ nread[p] >= 1
        /\ wexit[p] = "closed"
        /\ inbound[p].closed /\ outbound[p].closed

\* The step in which the write_frame the writer of p had started fails: the
\* writer leaves its write and nothing was written.
WriteFails(p) ==
    /\ wpc[p] = "write"
    /\ wpc'[p] # "write"
    /\ written'[p] = written[p]

\* C28: a failed write ends the writer in that step, with the outbound queue
\* closed and the failed frame not put back; from then on the writer stays
\* ended, nothing more is written and no frame leaves the outbound queue.
C28_WriteFailureEndsWriter ==
    [][\A p \in Pumps : p \in connected =>
          /\ WriteFails(p) =>
                /\ wpc'[p] = "done"
                /\ wexit'[p] = "write_error"
                /\ wframe'[p] = 0
                /\ outbound'[p].closed
                /\ outbound'[p].q = outbound[p].q
          /\ wexit[p] = "write_error" =>
                /\ wpc'[p] = "done"
                /\ wexit'[p] = "write_error"
                /\ written'[p] = written[p]
                /\ outbound'[p].closed
                /\ outbound'[p].q = outbound[p].q]_vars

\* A write failed while another frame was queued: the failed frame is
\* neither written nor queued, the queued one stays in the closed queue.
C28_Witness ==
    \E p \in connected :
        /\ wexit[p] = "write_error"
        /\ wpc[p] = "done"
        /\ outbound[p].q # <<>>
        /\ Len(written[p]) + Len(outbound[p].q) < nout[p]
        /\ rpc[p] = "select"

\* The step is a send of the reader on the inbound queue of p: a frame just
\* read, or the resumption of a suspended send.
ReaderSends(p) ==
    \/ rpc[p] = "select" /\ nread'[p] = nread[p] + 1
    \/ rpc[p] = "send" /\ rpc'[p] # "send"

\* A queue's content after a step in which nothing was enqueued: as before,
\* or without the frame a receiver took.
NothingEnqueued(before, after) ==
    \/ after = before
    \/ before # <<>> /\ after = Tail(before)

WorkerTakesWrite ==
    /\ worker \in {"recv", "drain"}
    /\ sender.q # <<>>
    /\ Head(sender.q).cmd = "Write"
    /\ sender'.q = Tail(sender.q)

\* That step's writeln! fails: the file does not gain the whole line.
WorkerWriteFails ==
    /\ WorkerTakesWrite
    /\ file' # file \o Head(sender.q).text \o <<LF>>

\* C30: a failed write leaves the worker where it was, in its loop or in its
\* drain, with the channel as open as before and nothing handed to a caller;
\* the worker never ends because of a write, and no method ever returns
\* anything but ().
C30_WriteFailureSwallowed ==
    [][/\ WorkerWriteFails =>
             /\ write_failed'
             /\ worker' = worker
             /\ worker_exit' = worker_exit
             /\ sender'.closed = sender.closed
             /\ ret' = ret
       /\ worker_exit' \in {"none", "open_error", "closed", "shutdown"}
       /\ ret' \in {"none", "()"}]_vars

\* The write of the first event failed with nothing written, and the line
\* of the second event is in the file, whole.
C30_Witness ==
    /\ write_failed
    /\ ncalls["persist_event"] = 2
    /\ Len(accepted) >= 2
    /\ accepted[1].cmd.cmd = "Write"
    /\ \E i \in 2..Len(accepted) :
          /\ accepted[i].cmd.cmd = "Write"
          /\ file = accepted[i].cmd.text \o <<LF>>
          /\ accepted[i].cmd.text # accepted[1].cmd.text

\* The events persist_event had accepted that the worker has not taken: the
\* Write commands in the channel.
EventsWaiting ==
    Cardinality({i \in 1..Len(sender.q) : sender.q[i].cmd = "Write"})

\* C31: pending_events() is the number of events accepted by persist_event
\* and not yet taken by the worker.
C31_PendingEventsCountsEvents ==
    backend_alive => pending_events = EventsWaiting

\* C32: a reader suspended in its send on the full inbound queue, with an
\* applicable shutdown message published, does not stay suspended: it
\* exits, unless the consumer made room and the send went through.
C32_SuspendedReaderExits ==
    \A p \in Pumps : \A i \in 1..MaxPublish :
        (/\ p \in connected
         /\ rpc[p] = "send"
         /\ Len(notify_shutdown) >= i
         /\ ShutdownApplies(notify_shutdown[i], status_type(p)))
            ~> (ReaderDone(p) \/ (p \in connected /\ rpc[p] = "select"))

\* spawn_io_tasks has returned for p and neither of its tasks has run yet.
NeitherLoopHasRun(p) ==
    /\ p \in connected
    /\ rpc[p] = "select" /\ wpc[p] = "select"
    /\ r_shutdown_rx[p] = 1 /\ w_shutdown_rx[p] = 1
    /\ nread[p] = 0 /\ written[p] = <<>>

\* C33: a message published before either loop of a connection has run for
\* the first time is eventually received by both loops (or the loop has
\* ended before): the subscriptions were there when it was published.
C33_EarlyMessageDelivered ==
    \A p \in Pumps : \A i \in 1..MaxPublish :
        (NeitherLoopHasRun(p) /\ Len(notify_shutdown) >= i)
            ~> (/\ ReaderDone(p) \/ ReaderReceived(p, i)
                /\ WriterDone(p) \/ WriterReceived(p, i))

\* C34: a receive error of the subscription changes nothing of the pump.
\* The step in which a loop finds that it lagged leaves both loops, both
\* queues and every frame as they were; and once every Sender is dropped
\* and a subscription has nothing retained to return, its loop does not
\* leave through the shutdown arm.
C34_ReceiveErrorIgnored ==
    [][\A p \in Pumps : p \in connected =>
          /\ (r_missed'[p] # r_missed[p] \/ w_missed'[p] # w_missed[p])
                => PumpState(p)' = PumpState(p)
          /\ (notify_dropped /\ ~Pending(r_shutdown_rx[p]))
                => ~(ReaderExits(p) /\ rexit'[p] = "shutdown")
          /\ (notify_dropped /\ ~Pending(w_shutdown_rx[p]))
                => ~(WriterExits(p) /\ wexit'[p] = "shutdown")]_vars

\* Every Sender is dropped, both subscriptions lagged and have nothing left
\* to return, and both loops are in their select with their queues open,
\* having forwarded and written frames.
C34_Witness ==
    \E p \in connected :
        /\ notify_dropped
        /\ r_missed[p] # {} /\ w_missed[p] # {}
        /\ ~Pending(r_shutdown_rx[p]) /\ ~Pending(w_shutdown_rx[p])
        /\ rpc[p] = "select" /\ wpc[p] = "select"
        /\ ~inbound[p].closed /\ ~outbound[p].closed
        /\ delivered[p] # <<>> /\ written[p] # <<>>

\* C35: no step sends on the status channel, a step that publishes on the
\* broadcast channel or drops its Senders is no step of a loop, and the
\* step in which a loop leaves closes both queues of its connection and
\* changes nothing else that is shared: not what the queues hold, not what
\* was enqueued, delivered or written.
C35_ExitOnlyClosesOwnQueues ==
    [][/\ status_sent' = status_sent
       /\ (notify_shutdown' # notify_shutdown \/ notify_dropped' # notify_dropped)
             => /\ rpc' = rpc /\ wpc' = wpc
                /\ r_shutdown_rx' = r_shutdown_rx
                /\ w_shutdown_rx' = w_shutdown_rx
       /\ \A p \in Pumps : (p \in connected /\ (ReaderExits(p) \/ WriterExits(p))) =>
             /\ inbound'[p] = Close(inbound[p])
             /\ outbound'[p] = Close(outbound[p])
             /\ nout'[p] = nout[p]
             /\ delivered'[p] = delivered[p]
             /\ written'[p] = written[p]]_vars

\* Both loops have left on errors of the transport: nothing was published,
\* nothing was sent on the status channel, both queues are closed and hold
\* the frames they held.
C35_Witness ==
    \E p \in connected :
        /\ rexit[p] = "read_error" /\ wexit[p] = "write_error"
        /\ notify_shutdown = <<>>
        /\ status_sent = 0
        /\ inbound[p].closed /\ inbound[p].q # <<>>
        /\ outbound[p].closed /\ outbound[p].q # <<>>

\* Position among the accepted commands of the second Shutdown (past the
\* end: none).
NextShutdown ==
    IF \E i \in (FirstShutdown + 1)..Len(accepted) : Commands[i] = Shutdown
    THEN CHOOSE i \in (FirstShutdown + 1)..Len(accepted) :
            /\ Commands[i] = Shutdown
            /\ \A j \in (FirstShutdown + 1)..(i - 1) : Commands[j] # Shutdown
    ELSE Len(accepted) + 1

\* The commands accepted before the second shutdown() was.
UpToNextShutdown == SubSeq(Commands, 1, NextShutdown - 1)

\* C36: once a Shutdown command is accepted the worker eventually ends; and
\* when it has ended on a Shutdown command the file is flushed up to its
\* end and (no write having failed) its lines are the events accepted
\* before the first Shutdown, then some of those accepted between it and
\* the next Shutdown, in order, and nothing accepted after that one.
C36_ShutdownTerminatesWorker ==
    /\ (\E i \in 1..Len(accepted) : Commands[i] = Shutdown) ~> (worker = "done")
    /\ []((worker = "done" /\ worker_exit = "shutdown")
            => /\ flushed = Len(file)
               /\ ~write_failed
                     => /\ IsPrefix(TextsOf(BeforeShutdown), Lines(file))
                        /\ IsPrefix(Lines(file), TextsOf(UpToNextShutdown)))

\* An event, a shutdown and a second event were accepted; the worker has
\* ended on the Shutdown command with both events in the file, the second
\* found by the drain.
C36_Witness ==
    /\ worker = "done"
    /\ worker_exit = "shutdown"
    /\ ~write_failed
    /\ Len(Commands) >= 3
    /\ Commands[1].cmd = "Write"
    /\ Commands[2] = Shutdown
    /\ Commands[3].cmd = "Write"
    /\ Len(Lines(file)) = 2
    /\ flushed = Len(file)

\* shutdown() was never accepted and every handle has been dropped.
DroppedWithoutShutdown ==
    /\ ~backend_alive
    /\ \A i \in 1..Len(accepted) : Commands[i] # Shutdown

\* C37: when every handle is dropped and no Shutdown was accepted, the
\* worker eventually ends; and when it has ended, having opened the file,
\* it has taken every command of the channel, the file is flushed up to
\* its end and (no write having failed) its lines are all the accepted
\* events, in order.
C37_DropDrainsAndTerminates ==
    /\ DroppedWithoutShutdown ~> (worker = "done")
    /\ []((DroppedWithoutShutdown /\ worker = "done" /\ worker_exit # "open_error")
            => /\ worker_exit = "closed"
               /\ sender.q = <<>>
               /\ flushed = Len(file)
               /\ ~write_failed => Lines(file) = TextsOf(Commands))

\* Every handle was dropped after two events and a flush, without a
\* shutdown; the worker has ended on the closed channel and the file holds
\* both events.
C37_Witness ==
    /\ DroppedWithoutShutdown
    /\ worker = "done"
    /\ worker_exit = "closed"
    /\ ~write_failed
    /\ Len(Commands) = MaxEvents + 1
    /\ Len(Lines(file)) = MaxEvents
    /\ flushed = Len(file)

\* This step is a call of a method of the backend.
BackendMethodStep == \E method \in Methods : ncalls'[method] = ncalls[method] + 1

\* C38: once the worker has ended it stays ended and the file is never
\* changed again; every method can still be called on a handle, returns (),
\* and leaves the channel and the file as they are.
C38_NothingAppendedAfterWorkerDone ==
    /\ []((worker = "done" /\ backend_alive)
            => /\ ncalls["persist_event"] < MaxEvents
                     => \E event \in PersistenceEvent : ENABLED persist_event(event)
               /\ ncalls["flush"] < MaxFlush => ENABLED flush
               /\ ncalls["shutdown"] < MaxShutdown => ENABLED shutdown)
    /\ [][worker = "done"
            => /\ worker' = "done"
               /\ file' = file
               /\ flushed' = flushed
               /\ BackendMethodStep
                     => /\ ret' = "()"
                        /\ sender' = sender
                        /\ accepted' = accepted]_vars

\* The worker has ended on a shutdown with one event in the file; a second
\* event was persisted afterwards and is neither accepted nor in the file.
C38_Witness ==
    /\ worker = "done"
    /\ worker_exit = "shutdown"
    /\ ~write_failed
    /\ ncalls["persist_event"] = 2
    /\ Len(TextsOf(Commands)) = 1
    /\ Len(Lines(file)) = 1
    /\ ret = "()"
    /\ sender.q = <<>>

====
